---- MODULE Spec2Model ----
(***************************************************************************)
(* Model of the transcription job pipeline of listen: the upload handler   *)
(* (internal/http/router.go), the worker pool (internal/jobs/queue.go) and *)
(* the job / transcript tables (internal/store/store.go).                  *)
(*                                                                         *)
(* Strings that the code joins with " " are modelled as sequences of words;*)
(* SQL NULL is NullInt for integer columns and NullStr for text columns.   *)
(***************************************************************************)
EXTENDS Integers, Sequences, FiniteSets, TLC

\* ---- bounds of the model ----
MaxJobs == 2
MaxChunks == 2
MaxSegsPerChunk == 1

\* ---- program constants ----
NumWorkers == 2
ChanCap == 128
InitialProgress == 5
ChunkSeconds == 15

NullInt == -1
NullStr == "NULL"

Workers == 1..NumWorkers
JobIds == 1..MaxJobs

VARIABLES
    p,                   \* Queue.p # nil (New leaves it nil, NewWithPipeline sets it)
    processing_jobs,     \* table processing_jobs, row id = index
    transcripts,         \* table transcripts (committed rows), row id = index
    transcript_segments, \* table transcript_segments (committed rows)
    accepted,            \* upload handlers between CreateJob and Enqueue
    ch,                  \* Queue.ch
    pc,                  \* position of each worker goroutine
    job,                 \* the Job a worker received (0: none)
    expired,             \* ctx.Done() of the worker's current run is closed
    workDir,             \* the worker's temp directory and the files in it
    loc,                 \* locals of process
    tx,                  \* uncommitted rows of the worker's open transaction
    lastWrite,           \* outcome of the worker's latest UpdateJobProgress
    hist,                \* per job: what has happened to it so far
    log,                 \* per job: the (status, progress) values its row has held
    probe                \* input and result of a function applied on its own

vars == <<p, processing_jobs, transcripts, transcript_segments, accepted, ch,
          pc, job, expired, workDir, loc, tx, lastWrite, hist, log, probe>>

\* ---- helpers of queue.go ----
max(a, b) == IF a > b THEN a ELSE b

\* a progress that counts the chunks still to do instead of the chunks done
ChunkProgressRemaining(current, total) ==
    15 + (65 * (total - current)) \div max(1, total)

ChunkProgress(current, total) == 15 + (65 * current) \div max(1, total)

\* pipeline.Chunk.Offset of the chunk with 1-based index idx
\* chunks cut without their offsets
ChunkOffsetZero(idx) == 0

\* Chunk.Offset of the chunk with Index idx, in milliseconds
ChunkOffset(idx) == (idx - 1) * ChunkSeconds * 1000

\* ---- store.go ----
\* `column = ?` in place of COALESCE(?, column)
COALESCEOverwrite(arg, old) == arg

COALESCE(arg, old) == IF arg = NullInt THEN old ELSE arg

NewJobRow(conversationID, initialProgress) ==
    [conversation_id |-> conversationID, status |-> "pending",
     progress |-> initialProgress, total_chunks |-> NullInt,
     current_chunk |-> NullInt, result |-> NullStr, transcript_id |-> NullInt]

CreateJob(tbl, conversationID, initialProgress) ==
    Append(tbl, NewJobRow(conversationID, initialProgress))

\* an update that writes the status alone
UpdateJobProgressStatusOnly(tbl, jobID, status, progress, totalChunks, currentChunk, result, transcriptID) ==
    [j \in DOMAIN tbl |-> IF j = jobID THEN [tbl[j] EXCEPT !.status = status] ELSE tbl[j]]

UpdateJobProgress(tbl, jobID, status, progress, totalChunks, currentChunk, result, transcriptID) ==
    [j \in DOMAIN tbl |->
        IF j = jobID
        THEN [tbl[j] EXCEPT
                !.status = status,
                !.progress = progress,
                !.total_chunks = COALESCE(totalChunks, @),
                !.current_chunk = COALESCE(currentChunk, @),
                !.result = IF result = NullStr THEN @ ELSE result,
                !.transcript_id = COALESCE(transcriptID, @)]
        ELSE tbl[j]]

\* ---- strings (sequences of one-character strings) ----
None == <<>>
Some(v) == <<v>>

RECURSIVE TrimLeft(_, _)
TrimLeft(s, cut) == IF s # <<>> /\ Head(s) \in cut THEN TrimLeft(Tail(s), cut) ELSE s

RECURSIVE TrimRight(_, _)
TrimRight(s, cut) ==
    IF s # <<>> /\ s[Len(s)] \in cut THEN TrimRight(SubSeq(s, 1, Len(s) - 1), cut) ELSE s

\* strings.TrimSpace, over the white space of the model's alphabet
SpaceChars == {" ", "\t", "\n", "\r", "\f"}
TrimSpace(s) == TrimRight(TrimLeft(s, SpaceChars), SpaceChars)

\* stringsTrim of store.go trims ' ', '\n', '\t' and '\r' only
stringsTrim(s) == TrimRight(TrimLeft(s, {" ", "\n", "\t", "\r"}), {" ", "\n", "\t", "\r"})

\* strings.Join(parts, " ")
RECURSIVE Join(_)
Join(parts) ==
    IF parts = <<>> THEN <<>>
    ELSE IF Len(parts) = 1 THEN parts[1]
    ELSE parts[1] \o <<" ">> \o Join(Tail(parts))

\* strings.Split(s, sep) for a one-character sep
RECURSIVE SplitAcc(_, _, _)
SplitAcc(s, sep, cur) ==
    IF s = <<>> THEN <<cur>>
    ELSE IF Head(s) = sep THEN <<cur>> \o SplitAcc(Tail(s), sep, <<>>)
    ELSE SplitAcc(Tail(s), sep, Append(cur, Head(s)))

\* strings.SplitN(s, sep, 2) of a string that contains sep
FirstIndex(s, c) == CHOOSE i \in 1..Len(s) : s[i] = c /\ \A k \in 1..(i - 1) : s[k] # c
SplitN2(s, sep) ==
    <<SubSeq(s, 1, FirstIndex(s, sep) - 1), SubSeq(s, FirstIndex(s, sep) + 1, Len(s))>>

Digits == <<"0", "1", "2", "3", "4", "5", "6", "7", "8", "9">>
DigitVal(c) == (CHOOSE d \in 1..10 : Digits[d] = c) - 1

RECURSIVE DigitsVal(_, _)
DigitsVal(s, acc) ==
    IF s = <<>> THEN acc ELSE DigitsVal(Tail(s), 10 * acc + DigitVal(Head(s)))

\* strconv.Atoi: [ok, v]; v is 0 when the string is no decimal integer
Atoi(s) ==
    LET body == IF s # <<>> /\ Head(s) \in {"+", "-"} THEN Tail(s) ELSE s
        good == body # <<>> /\ \A i \in 1..Len(body) : \E d \in 1..10 : Digits[d] = body[i]
        mag  == IF good THEN DigitsVal(body, 0) ELSE 0
    IN [ok |-> good,
        v |-> IF s # <<>> /\ Head(s) = "-" THEN 0 - mag ELSE mag]

\* ---- pipeline.go: parsing helpers; times are in milliseconds ----
RECURSIVE PadTo3(_)
PadTo3(ms) == IF Len(ms) < 3 THEN PadTo3(Append(ms, "0")) ELSE ms

\* the millisecond part of parseTimestamp (lines 335-346)
MsPart(ms0) ==
    LET ms == TrimRight(ms0, {"Z"}) IN
    IF ms = <<>> THEN 0
    ELSE Atoi(PadTo3(IF Len(ms) > 3 THEN SubSeq(ms, 1, 3) ELSE ms)).v

\* parseTimestamp: [ok, v]
parseTimestamp(v0) ==
    LET v == TrimSpace(v0)
        parts == SplitAcc(v, ":", <<>>)
    IN IF Len(parts) # 3 THEN [ok |-> FALSE, v |-> 0]
       ELSE LET h == Atoi(parts[1])
                m == Atoi(parts[2])
                secPart == parts[3]
                hasDot == \E i \in 1..Len(secPart) : secPart[i] = "."
                s == IF hasDot THEN SplitN2(secPart, ".")[1] ELSE secPart
                ms == IF hasDot THEN SplitN2(secPart, ".")[2] ELSE <<"0">>
                sec == Atoi(s)
            IN IF ~h.ok \/ ~m.ok \/ ~sec.ok THEN [ok |-> FALSE, v |-> 0]
               ELSE [ok |-> TRUE,
                     v |-> (h.v * 3600 + m.v * 60 + sec.v) * 1000 + MsPart(ms)]

\* whisperSeg: every pointer field is None or Some(value); start/end are given
\* in milliseconds, t0/t1 in 10 ms units, offsets in milliseconds
NoTimes == [start |-> 0, end |-> 0, ok |-> FALSE]

\* the timestamps struct segTimesSeconds falls back to (lines 296-299)
TimestampsOf(s) == IF s.timestamps = None THEN s.timestanps ELSE s.timestamps

\* segTimesSeconds with the millisecond pair tried after start/end
segTimesSecondsStartFirst(s) ==
    IF s.start # None /\ s.end # None
    THEN [start |-> s.start[1], end |-> s.end[1], ok |-> TRUE]
    ELSE IF s.offsets # None /\ s.offsets[1].from # None /\ s.offsets[1].to # None
    THEN [start |-> s.offsets[1].from[1], end |-> s.offsets[1].to[1], ok |-> TRUE]
    ELSE IF s.t0 # None /\ s.t1 # None
    THEN [start |-> s.t0[1] * 10, end |-> s.t1[1] * 10, ok |-> TRUE]
    ELSE LET ts == TimestampsOf(s) IN
         IF ts # None /\ ts[1].from # <<>> /\ ts[1].to # <<>>
         THEN LET a == parseTimestamp(ts[1].from)
                  b == parseTimestamp(ts[1].to)
              IN IF a.ok /\ b.ok THEN [start |-> a.v, end |-> b.v, ok |-> TRUE]
                 ELSE NoTimes
         ELSE NoTimes

segTimesSeconds(s) ==
    IF s.offsets # None /\ s.offsets[1].from # None /\ s.offsets[1].to # None
    THEN [start |-> s.offsets[1].from[1], end |-> s.offsets[1].to[1], ok |-> TRUE]
    ELSE IF s.start # None /\ s.end # None
    THEN [start |-> s.start[1], end |-> s.end[1], ok |-> TRUE]
    ELSE IF s.t0 # None /\ s.t1 # None
    THEN [start |-> s.t0[1] * 10, end |-> s.t1[1] * 10, ok |-> TRUE]
    ELSE LET ts == TimestampsOf(s) IN
         IF ts # None /\ ts[1].from # <<>> /\ ts[1].to # <<>>
         THEN LET a == parseTimestamp(ts[1].from)
                  b == parseTimestamp(ts[1].to)
              IN IF a.ok /\ b.ok THEN [start |-> a.v, end |-> b.v, ok |-> TRUE]
                 ELSE NoTimes
         ELSE NoTimes

\* ---- the engine's output for one chunk, as returned by TranscribeChunk ----
\* parseWhisperJSON without the blank-text test of its loop
parseWhisperJSONKeepBlank(w) ==
    LET lang0 == TrimSpace(w.language)
        lang == IF lang0 = <<>> /\ w.result # None
                THEN TrimSpace(w.result[1].language) ELSE lang0
        segs == IF Len(w.segments) = 0 THEN w.transcription ELSE w.segments
        Kept(s) == segTimesSeconds(s).ok
        Out(s) == [Start |-> segTimesSeconds(s).start, End |-> segTimesSeconds(s).end,
                   Text |-> TrimSpace(s.text)]
        kept == SelectSeq(segs, Kept)
        out == [k \in 1..Len(kept) |-> Out(kept[k])]
        parts == [k \in 1..Len(out) |-> out[k].Text]
        text == TrimSpace(w.text)
    IN [segs |-> out,
        text |-> IF text = <<>> THEN Join(parts) ELSE text,
        lang |-> IF lang # <<>> THEN Some(lang) ELSE None]

\* parseWhisperJSON that derives the text from the segments only
parseWhisperJSONNoTopText(w) ==
    LET lang0 == TrimSpace(w.language)
        lang == IF lang0 = <<>> /\ w.result # None
                THEN TrimSpace(w.result[1].language) ELSE lang0
        segs == IF Len(w.segments) = 0 THEN w.transcription ELSE w.segments
        Kept(s) == segTimesSeconds(s).ok /\ TrimSpace(s.text) # <<>>
        Out(s) == [Start |-> segTimesSeconds(s).start, End |-> segTimesSeconds(s).end,
                   Text |-> TrimSpace(s.text)]
        kept == SelectSeq(segs, Kept)
        out == [k \in 1..Len(kept) |-> Out(kept[k])]
        parts == [k \in 1..Len(out) |-> out[k].Text]
    IN [segs |-> out,
        text |-> Join(parts),
        lang |-> IF lang # <<>> THEN Some(lang) ELSE None]

\* parseWhisperJSON of a document that json.Unmarshal accepted
parseWhisperJSON(w) ==
    LET lang0 == TrimSpace(w.language)
        lang == IF lang0 = <<>> /\ w.result # None
                THEN TrimSpace(w.result[1].language) ELSE lang0
        segs == IF Len(w.segments) = 0 THEN w.transcription ELSE w.segments
        Kept(s) == segTimesSeconds(s).ok /\ TrimSpace(s.text) # <<>>
        Out(s) == [Start |-> segTimesSeconds(s).start, End |-> segTimesSeconds(s).end,
                   Text |-> TrimSpace(s.text)]
        kept == SelectSeq(segs, Kept)
        out == [k \in 1..Len(kept) |-> Out(kept[k])]
        parts == [k \in 1..Len(out) |-> out[k].Text]
        text == TrimSpace(w.text)
    IN [segs |-> out,
        text |-> IF text = <<>> THEN Join(parts) ELSE text,
        lang |-> IF lang # <<>> THEN Some(lang) ELSE None]

\* ---- the engine's JSON documents the workers meet ----
NoSeg == [text |-> <<>>, start |-> None, end |-> None, t0 |-> None, t1 |-> None,
          offsets |-> None, timestamps |-> None, timestanps |-> None]
NoDoc == [text |-> <<>>, language |-> <<>>, result |-> None, segments |-> <<>>,
          transcription |-> <<>>]

\* n segments of one second each, their text padded with white space
RawSegList(n) ==
    [k \in 1..n |->
        [NoSeg EXCEPT !.text = <<" ", "a">>,
                      !.offsets = Some([from |-> Some((k - 1) * 1000),
                                        to |-> Some(k * 1000)])]]

\* json.Unmarshal into a whisperJSON: a key the object lacks leaves the zero
\* value of its field, a key the struct lacks is ignored (segment objects are
\* written in their unmarshalled form)
Unmarshal(js) ==
    [k \in DOMAIN NoDoc |-> IF k \in DOMAIN js THEN js[k] ELSE NoDoc[k]]

\* the JSON objects whisper may leave: one with none of the keys whisperJSON
\* knows; speech in n segments under a blank top-level text; one whose top-level
\* text is not blank but whose segments are a blank one and one without times
JsonOutputs ==
    {[model |-> <<"b", "a", "s", "e">>]}
    \cup {[text |-> <<" ">>, language |-> <<"e", "n">>, segments |-> RawSegList(n)] :
             n \in 1..MaxSegsPerChunk}
    \cup {[text |-> <<"b", "\n">>, language |-> <<" ">>,
           result |-> Some([language |-> <<" ", "d", "e">>]),
           transcription |-> <<[NoSeg EXCEPT !.text = <<" ">>, !.t0 = Some(0),
                                             !.t1 = Some(50)],
                               [NoSeg EXCEPT !.text = <<"c">>]>>]}

\* `return nil, "", nil, err`
NoOutput == [segs |-> <<>>, text |-> <<>>, lang |-> None]

\* one run of the engine: its exit status and the file it left, if any; a
\* file is valid JSON of the types whisperJSON expects, or it is not
EngineRuns ==
    {[exit |-> 1, file |-> None], [exit |-> 0, file |-> None],
     [exit |-> 0, file |-> Some([valid |-> FALSE, json |-> [model |-> <<>>]])]}
    \cup {[exit |-> 0, file |-> Some([valid |-> TRUE, json |-> js])] : js \in JsonOutputs}

\* transcribeChunk that reports a chunk without usable segments as an error
transcribeChunkNeedsSegments(run) ==
    IF run.exit # 0 THEN [err |-> "whisper failed", out |-> NoOutput]
    ELSE IF run.file = None
    THEN [err |-> "read whisper json", out |-> NoOutput]
    ELSE IF ~run.file[1].valid
    THEN [err |-> "parse whisper json", out |-> NoOutput]
    ELSE IF parseWhisperJSON(Unmarshal(run.file[1].json)).segs = <<>>
    THEN [err |-> "no segments", out |-> NoOutput]
    ELSE [err |-> NullStr, out |-> parseWhisperJSON(Unmarshal(run.file[1].json))]

\* transcribeChunk: runCmd, os.ReadFile, parseWhisperJSON (json.Unmarshal first)
transcribeChunk(run) ==
    IF run.exit # 0 THEN [err |-> "whisper failed", out |-> NoOutput]
    ELSE IF run.file = None
    THEN [err |-> "read whisper json", out |-> NoOutput]
    ELSE IF ~run.file[1].valid
    THEN [err |-> "parse whisper json", out |-> NoOutput]
    ELSE [err |-> NullStr, out |-> parseWhisperJSON(Unmarshal(run.file[1].json))]

\* ---- initial values ----
NoLoc == [total |-> 0, current |-> 0, combined |-> <<>>, textParts |-> <<>>,
          lang |-> None, transcriptID |-> NullInt]
NoDir == [exists |-> FALSE, files |-> {}]
NoTx == [open |-> FALSE, transcript |-> <<>>, segs |-> <<>>]

\* no job yet, every worker waiting on the channel
Idle ==
    /\ processing_jobs = <<>>
    /\ transcripts = <<>>
    /\ transcript_segments = <<>>
    /\ accepted = {}
    /\ ch = <<>>
    /\ pc = [w \in Workers |-> "idle"]
    /\ job = [w \in Workers |-> 0]
    /\ expired = [w \in Workers |-> FALSE]
    /\ workDir = [w \in Workers |-> NoDir]
    /\ loc = [w \in Workers |-> NoLoc]
    /\ tx = [w \in Workers |-> NoTx]
    /\ lastWrite = [w \in Workers |-> "none"]
    /\ hist = [j \in JobIds |->
                  [claims |-> 0, returned |-> FALSE, timedOutAt |-> "none",
                   failStage |-> "none", failChunk |-> 0, progAtFail |-> NullInt,
                   enqueued |-> FALSE, wanted |-> NullInt, n |-> NullInt, raws |-> <<>>,
                   files |-> <<>>, starts |-> <<>>, failMsg |-> NullStr]]
    /\ log = [j \in JobIds |-> <<>>]

Init ==
    /\ p \in BOOLEAN
    /\ Idle
    /\ probe = [fn |-> "none"]


\* ---- shared pieces of the worker's steps ----
FailedProgress == 100

\* SQLite admits one writer: a transaction that has inserted holds the lock.
WriteLockFree(w) == \A v \in Workers \ {w} : tx[v].transcript = <<>>

\* A statement run with the worker's ctx fails once the deadline has passed
\* (database/sql returns ctx.Err()) and while another writer holds the lock
\* (SQLITE_BUSY when busy_timeout runs out).
WriteOutcomes(w) == {~expired[w] /\ WriteLockFree(w)}

\* `_ = q.store.UpdateJobProgress(ctx, j.JobID, ...)`: the error is dropped.
JobWrite(w, ok, status, progress, totalChunks, currentChunk, result, transcriptID) ==
    /\ processing_jobs' =
          IF ok
          THEN UpdateJobProgress(processing_jobs, job[w], status, progress,
                                 totalChunks, currentChunk, result, transcriptID)
          ELSE processing_jobs
    /\ lastWrite' = [lastWrite EXCEPT ![w] = IF ok THEN "ok" ELSE "failed"]
    /\ log' = IF ok THEN [log EXCEPT ![job[w]] = Append(@, <<status, progress>>)]
               ELSE log

\* a return that leaves the work directory behind
ReturnKeepDir(w) ==
    /\ pc' = [pc EXCEPT ![w] = "idle"]
    /\ job' = [job EXCEPT ![w] = 0]
    /\ expired' = [expired EXCEPT ![w] = FALSE]
    /\ workDir' = workDir
    /\ loc' = [loc EXCEPT ![w] = NoLoc]
    /\ tx' = [tx EXCEPT ![w] = NoTx]

\* return from process: deferred cancel, os.RemoveAll(workDir), tx.Rollback
Return(w) ==
    /\ pc' = [pc EXCEPT ![w] = "idle"]
    /\ job' = [job EXCEPT ![w] = 0]
    /\ expired' = [expired EXCEPT ![w] = FALSE]
    /\ workDir' = [workDir EXCEPT ![w] = NoDir]
    /\ loc' = [loc EXCEPT ![w] = NoLoc]
    /\ tx' = [tx EXCEPT ![w] = NoTx]

\* the error branches of process: msg := err.Error(); UpdateJobProgress(
\* "failed", 100, nil, currentChunk, &msg, nil); return
MarkFailed(w, stage, msg, currentChunk, k) ==
    /\ \E ok \in WriteOutcomes(w) :
          JobWrite(w, ok, "failed", FailedProgress, NullInt, currentChunk, msg, NullInt)
    /\ hist' = [hist EXCEPT ![job[w]] =
                  [@ EXCEPT !.returned = TRUE, !.failStage = stage, !.failChunk = k,
                            !.failMsg = msg,
                            !.progAtFail = processing_jobs[job[w]].progress]]
    /\ Return(w)
    /\ UNCHANGED <<probe, p, transcripts, transcript_segments, accepted, ch>>

\* ---- upload handler (router.go) ----
UploadCreateJob ==
    /\ Len(processing_jobs) < MaxJobs
    /\ LET id == Len(processing_jobs) + 1 IN
         /\ processing_jobs' = CreateJob(processing_jobs, id, InitialProgress)
         /\ accepted' = accepted \cup {id}
         /\ log' = [log EXCEPT ![id] = <<<<"pending", InitialProgress>>>>]
    /\ UNCHANGED <<probe, p, transcripts, transcript_segments, ch, pc, job, expired,
                   workDir, loc, tx, lastWrite, hist>>

Enqueue(j) ==
    /\ j \in accepted
    /\ Len(ch) < ChanCap
    /\ ch' = Append(ch, j)
    /\ accepted' = accepted \ {j}
    /\ hist' = [hist EXCEPT ![j].enqueued = TRUE]
    /\ UNCHANGED <<probe, p, processing_jobs, transcripts, transcript_segments, pc,
                   job, expired, workDir, loc, tx, lastWrite, log>>

\* ---- worker (queue.go) ----
\* a receive that leaves the job in the channel
AfterReceivePeek(c) == c

\* the channel after `j := <-q.ch`
AfterReceive(c) == Tail(c)

Receive(w) ==
    /\ pc[w] = "idle"
    /\ ch # <<>>
    /\ job' = [job EXCEPT ![w] = Head(ch)]
    /\ ch' = AfterReceive(ch)
    /\ pc' = [pc EXCEPT ![w] = "start"]
    /\ hist' = [hist EXCEPT ![Head(ch)].claims = @ + 1]
    /\ lastWrite' = [lastWrite EXCEPT ![w] = "none"]
    /\ UNCHANGED <<probe, p, processing_jobs, transcripts, transcript_segments,
                   accepted, expired, workDir, loc, tx, log>>

\* the 30-minute deadline of context.WithTimeout passes; database/sql rolls
\* back a transaction whose context is done
Timeout(w) ==
    /\ pc[w] # "idle"
    /\ ~expired[w]
    /\ expired' = [expired EXCEPT ![w] = TRUE]
    /\ tx' = [tx EXCEPT ![w] = NoTx]
    /\ hist' = [hist EXCEPT ![job[w]].timedOutAt = pc[w]]
    /\ UNCHANGED <<probe, p, processing_jobs, transcripts, transcript_segments,
                   accepted, ch, pc, job, workDir, loc, lastWrite, log>>

MoveToProcessing(w) ==
    /\ pc[w] = "start"
    /\ \E ok \in WriteOutcomes(w) :
          JobWrite(w, ok, "processing", 10, NullInt, NullInt, NullStr, NullInt)
    /\ pc' = [pc EXCEPT ![w] = IF p THEN "mkdir" ELSE "nopipe"]
    /\ UNCHANGED <<probe, p, transcripts, transcript_segments, accepted, ch, job,
                   expired, workDir, loc, tx, hist>>

NoPipeline(w) ==
    /\ pc[w] = "nopipe"
    /\ MarkFailed(w, "config", "pipeline not configured", NullInt, 0)

\* os.MkdirTemp, then ChunkAudio starts ffmpeg (runCmd: exec.CommandContext
\* refuses to start once ctx is done)
MkdirTemp(w) ==
    /\ pc[w] = "mkdir"
    /\ \/ MarkFailed(w, "mkdir", "mkdir failed", NullInt, 0)
       \/ /\ expired[w]
          /\ MarkFailed(w, "chunk", "ffmpeg chunking failed", NullInt, 0)
       \/ /\ ~expired[w]
          /\ workDir' = [workDir EXCEPT ![w] = [exists |-> TRUE, files |-> {}]]
          /\ pc' = [pc EXCEPT ![w] = "chunking"]
          /\ UNCHANGED <<probe, p, processing_jobs, transcripts, transcript_segments,
                         accepted, ch, job, expired, loc, tx, lastWrite, hist, log>>

\* ffmpeg exits (killed when ctx is done); on success total := len(chunks)
ChunkAudioReturn(w) ==
    /\ pc[w] = "chunking"
    /\ \/ MarkFailed(w, "chunk", "ffmpeg chunking failed", NullInt, 0)
       \/ /\ ~expired[w]
          /\ \E n \in 0..MaxChunks, ok \in WriteOutcomes(w) :
                /\ JobWrite(w, ok, "processing", 15, n, 0, NullStr, NullInt)
                /\ loc' = [loc EXCEPT ![w].total = n]
                /\ hist' = [hist EXCEPT ![job[w]].n = n]
                /\ workDir' = [workDir EXCEPT ![w].files = {<<"wav", i>> : i \in 1..n}]
                /\ pc' = [pc EXCEPT ![w] = IF n = 0 THEN "merge" ELSE "loop"]
          /\ UNCHANGED <<probe, p, transcripts, transcript_segments, accepted, ch,
                         job, expired, tx>>

\* a loop that numbers the chunk it starts one too high
NextCurrentAhead(done) == done + 2

\* `current := i + 1`, i being the number of chunks the loop has finished
NextCurrent(done) == done + 1

\* head of `for i, ch := range chunks`: current := i + 1 and the progress write
\* and TranscribeChunk starts the engine; once ctx is done the write and the
\* start both fail, so only the error branch is left
LoopHead(w) ==
    /\ pc[w] = "loop"
    /\ LET current == NextCurrent(loc[w].current) IN
         IF expired[w]
         THEN MarkFailed(w, "transcribe", "whisper failed", current, current)
         ELSE /\ \E ok \in WriteOutcomes(w) :
                    JobWrite(w, ok, "processing", ChunkProgress(current, loc[w].total),
                             NullInt, current, NullStr, NullInt)
              /\ loc' = [loc EXCEPT ![w].current = current]
              /\ hist' = [hist EXCEPT ![job[w]].starts = Append(@, current)]
              /\ pc' = [pc EXCEPT ![w] = "transcribing"]
              /\ UNCHANGED <<probe, p, transcripts, transcript_segments, accepted,
                             ch, job, expired, workDir, tx>>

\* a merge that adds the offset a second time
ShiftedTwice(segs, offset) ==
    [k \in 1..Len(segs) |->
        [Start |-> segs[k].Start + offset + offset, End |-> segs[k].End + offset + offset,
         Text |-> segs[k].Text]]

\* the segments of one chunk, moved by the chunk's offset
Shifted(segs, offset) ==
    [k \in 1..Len(segs) |->
        [Start |-> segs[k].Start + offset, End |-> segs[k].End + offset,
         Text |-> segs[k].Text]]

\* the tail of the loop body after a chunk was transcribed (lines 120-133)
\* a loop body in which every chunk's language replaces the one before
AccumulateLastLanguage(l, out) ==
    [l EXCEPT
        !.lang = IF out.lang # None /\ TrimSpace(out.lang[1]) # <<>> THEN out.lang ELSE @,
        !.combined = @ \o Shifted(out.segs, ChunkOffset(l.current)),
        !.textParts = IF TrimSpace(out.text) # <<>>
                      THEN Append(@, TrimSpace(out.text)) ELSE @]

Accumulate(l, out) ==
    [l EXCEPT
        !.lang = IF l.lang = None /\ out.lang # None /\ TrimSpace(out.lang[1]) # <<>>
                 THEN out.lang ELSE @,
        !.combined = @ \o Shifted(out.segs, ChunkOffset(l.current)),
        !.textParts = IF TrimSpace(out.text) # <<>>
                      THEN Append(@, TrimSpace(out.text)) ELSE @]

\* the loop body after TranscribeChunk returned without an error
ChunkDone(w, run) ==
    /\ loc' = [loc EXCEPT ![w] = Accumulate(loc[w], transcribeChunk(run).out)]
    /\ hist' = [hist EXCEPT ![job[w]] =
                  [@ EXCEPT !.raws = Append(@, Unmarshal(run.file[1].json)),
                            !.files = Append(@, run.file[1].json)]]
    /\ workDir' = [workDir EXCEPT ![w].files = @ \cup {<<"json", loc[w].current>>}]
    /\ pc' = [pc EXCEPT ![w] = IF loc[w].current = loc[w].total THEN "merge" ELSE "loop"]
    /\ UNCHANGED <<probe, p, processing_jobs, transcripts, transcript_segments,
                   accepted, ch, job, expired, tx, lastWrite, log>>

\* the error branch without its `return`: the loop goes on after the write
TranscribeReturnNoReturn(w) ==
    /\ pc[w] = "transcribing"
    /\ \E run \in EngineRuns :
          /\ expired[w] => run.exit # 0
          /\ IF transcribeChunk(run).err # NullStr
             THEN /\ \E ok \in WriteOutcomes(w) :
                        JobWrite(w, ok, "failed", FailedProgress, NullInt, loc[w].current,
                                 transcribeChunk(run).err, NullInt)
                  /\ pc' = [pc EXCEPT ![w] =
                              IF loc[w].current = loc[w].total THEN "merge" ELSE "loop"]
                  /\ UNCHANGED <<probe, p, transcripts, transcript_segments, accepted,
                                 ch, job, expired, workDir, loc, tx, hist>>
             ELSE ChunkDone(w, run)

\* TranscribeChunk returns: the engine has exited (killed once ctx is done)
TranscribeReturn(w) ==
    /\ pc[w] = "transcribing"
    /\ \E run \in EngineRuns :
          /\ expired[w] => run.exit # 0
          /\ IF transcribeChunk(run).err # NullStr
             THEN MarkFailed(w, "transcribe", transcribeChunk(run).err, loc[w].current,
                             loc[w].current)
             ELSE ChunkDone(w, run)

BeginPersist(w) ==
    /\ pc[w] = "merge"
    /\ \E ok \in WriteOutcomes(w) :
          JobWrite(w, ok, "processing", 85, NullInt, loc[w].total, NullStr, NullInt)
    /\ pc' = [pc EXCEPT ![w] = "persist"]
    /\ UNCHANGED <<probe, p, transcripts, transcript_segments, accepted, ch, job,
                   expired, workDir, loc, tx, hist>>

\* inputSegments of process, then the rows CreateTranscriptWithSegments inserts
InputSegments(combined) == SelectSeq(combined, LAMBDA s : TrimSpace(s.Text) # <<>>)

\* the rows the loop of CreateTranscriptWithSegments inserts (store.go:565-572)
StoredSegments(segments) == SelectSeq(segments, LAMBDA seg : stringsTrim(seg.Text) # <<>>)


\* ---- CreateTranscriptWithSegments (store.go), one statement per step ----
\* an insert that stores 0 for a nil duration
TranscriptRowZeroDuration(conversationID, transcriptText, duration, language) ==
    [conversation_id |-> conversationID, transcript_text |-> transcriptText,
     duration |-> IF duration = NullInt THEN 0 ELSE duration, language |-> language]

TranscriptRow(conversationID, transcriptText, duration, language) ==
    [conversation_id |-> conversationID, transcript_text |-> transcriptText,
     duration |-> duration, language |-> language]

SegmentRow(transcriptID, seg) ==
    [transcript_id |-> transcriptID, start_time |-> seg.Start,
     end_time |-> seg.End, text |-> seg.Text]

\* what other connections see of a table after an insert inside an open
\* transaction, and after its commit
AutoCommitInsert(tbl, row) == Append(tbl, row)
CommittedAfterInsert(tbl, row) == tbl
CommittedAfterCommit(tbl, rows) == tbl \o rows

PersistFailed(w) == MarkFailed(w, "persist", "db error", NullInt, 0)

\* BeginTx and the INSERT INTO transcripts
TxInsertTranscript(w) ==
    /\ pc[w] = "persist"
    /\ \/ PersistFailed(w)
       \/ /\ ~expired[w]
          /\ WriteLockFree(w)
          /\ LET row == TranscriptRow(processing_jobs[job[w]].conversation_id,
                                      Join(loc[w].textParts), NullInt, loc[w].lang)
             IN /\ tx' = [tx EXCEPT ![w] = [open |-> TRUE, transcript |-> <<row>>,
                                            segs |-> <<>>]]
                /\ transcripts' = CommittedAfterInsert(transcripts, row)
          /\ loc' = [loc EXCEPT ![w].transcriptID = Len(transcripts) + 1]
          /\ pc' = [pc EXCEPT ![w] =
                      IF Len(InputSegments(loc[w].combined)) > 0
                      THEN "tx_segs" ELSE "tx_commit"]
          /\ hist' = [hist EXCEPT ![job[w]].wanted =
                                     Len(StoredSegments(InputSegments(loc[w].combined)))]
          /\ UNCHANGED <<probe, p, processing_jobs, transcript_segments, accepted,
                         ch, job, expired, workDir, lastWrite, log>>

TxInsertSegment(w) ==
    /\ pc[w] = "tx_segs"
    /\ \/ PersistFailed(w)
       \/ /\ ~expired[w]
          /\ LET rows == StoredSegments(InputSegments(loc[w].combined))
                 row == SegmentRow(loc[w].transcriptID, rows[Len(tx[w].segs) + 1])
             IN /\ tx' = [tx EXCEPT ![w].segs = Append(@, row)]
                /\ transcript_segments' = CommittedAfterInsert(transcript_segments, row)
                /\ pc' = [pc EXCEPT ![w] =
                            IF Len(tx[w].segs) + 1 = Len(rows)
                            THEN "tx_commit" ELSE "tx_segs"]
          /\ UNCHANGED <<probe, p, processing_jobs, transcripts, accepted, ch, job,
                         expired, workDir, loc, lastWrite, hist, log>>

TxCommit(w) ==
    /\ pc[w] = "tx_commit"
    /\ \/ PersistFailed(w)
       \/ /\ ~expired[w]
          /\ transcripts' = CommittedAfterCommit(transcripts, tx[w].transcript)
          /\ transcript_segments' = CommittedAfterCommit(transcript_segments, tx[w].segs)
          /\ tx' = [tx EXCEPT ![w] = NoTx]
          /\ pc' = [pc EXCEPT ![w] = "complete"]
          /\ UNCHANGED <<probe, p, processing_jobs, accepted, ch, job, expired,
                         workDir, loc, lastWrite, hist, log>>

Complete(w) ==
    /\ pc[w] = "complete"
    /\ \E ok \in WriteOutcomes(w) :
          JobWrite(w, ok, "completed", 100, NullInt, loc[w].total, "success",
                   loc[w].transcriptID)
    /\ hist' = [hist EXCEPT ![job[w]].returned = TRUE]
    /\ Return(w)
    /\ UNCHANGED <<probe, p, transcripts, transcript_segments, accepted, ch>>

Next ==
    \/ UploadCreateJob
    \/ \E j \in JobIds : Enqueue(j)
    \/ \E w \in Workers : Receive(w)
    \/ \E w \in Workers : Timeout(w)
    \/ \E w \in Workers : MoveToProcessing(w)
    \/ \E w \in Workers : NoPipeline(w)
    \/ \E w \in Workers : MkdirTemp(w)
    \/ \E w \in Workers : ChunkAudioReturn(w)
    \/ \E w \in Workers : LoopHead(w)
    \/ \E w \in Workers : TranscribeReturn(w)
    \/ \E w \in Workers : BeginPersist(w)
    \/ \E w \in Workers : TxInsertTranscript(w)
    \/ \E w \in Workers : TxInsertSegment(w)
    \/ \E w \in Workers : TxCommit(w)
    \/ \E w \in Workers : Complete(w)

Spec == Init /\ [][Next]_vars

\* ---- the parser applied on its own to the documents of ParseDocs ----
MaxRawSegs == 2

queueVars == <<p, processing_jobs, transcripts, transcript_segments, accepted, ch,
               pc, job, expired, workDir, loc, tx, lastWrite, hist, log>>

\* "00:00:05.5", "0:1:2" and a string that is no timestamp
TsFrom == <<"0", "0", ":", "0", "0", ":", "0", "5", ".", "5">>
TsTo == <<"0", ":", "1", ":", "2">>
TsBad == <<"5", "s">>

\* the shapes a raw segment's times come in: each pair absent, half or whole
StampShapes ==
    {<<None, None>>,
     <<Some([from |-> TsFrom, to |-> TsTo]), None>>,
     <<Some([from |-> TsFrom, to |-> TsBad]), None>>,
     <<None, Some([from |-> TsFrom, to |-> TsTo])>>}

ParseSegs ==
    {[text |-> t, start |-> se[1], end |-> se[2], t0 |-> tt[1], t1 |-> tt[2],
      offsets |-> o, timestamps |-> st[1], timestanps |-> st[2]] :
        t \in {<<"a", " ">>, <<" ", "\n">>},
        se \in {<<None, None>>, <<Some(3000), None>>, <<Some(3000), Some(4000)>>},
        tt \in {<<None, None>>, <<None, Some(300)>>, <<Some(150), Some(300)>>},
        o \in {None, Some([from |-> Some(1000), to |-> None]),
               Some([from |-> Some(1000), to |-> Some(2500)])},
        st \in StampShapes}

\* the segments that follow the first one of a document: spoken, blank, untimed
RECURSIVE SegSeqs(_)
SegSeqs(n) ==
    IF n = 0 THEN {<<>>}
    ELSE SegSeqs(n - 1)
         \cup {Append(q, s) : q \in SegSeqs(n - 1),
                s \in {[NoSeg EXCEPT !.text = <<"b">>, !.start = Some(7000), !.end = Some(8000)],
                       [NoSeg EXCEPT !.text = <<"\t">>, !.start = Some(8000), !.end = Some(9000)],
                       [NoSeg EXCEPT !.text = <<"c">>]}}

ParseDocs ==
    {[NoDoc EXCEPT !.text = t, !.segments = sg[1], !.transcription = sg[2]] :
        t \in {<<>>, <<" ", "t">>},
        sg \in {<<<<s>> \o q, <<>>>> : s \in ParseSegs, q \in SegSeqs(MaxRawSegs - 1)}
             \cup {<<<<>>, <<s>> \o q>> : s \in ParseSegs, q \in SegSeqs(MaxRawSegs - 1)}}

\* timestamp strings as the engine writes them: HH:MM:SS with an optional
\* fraction of any number of digits
TsString(h, m, sec, frac) ==
    <<Digits[(h \div 10) + 1], Digits[(h % 10) + 1], ":",
      Digits[(m \div 10) + 1], Digits[(m % 10) + 1], ":",
      Digits[(sec \div 10) + 1], Digits[(sec % 10) + 1]>>
        \o (IF frac = <<>> THEN <<>> ELSE <<".">> \o frac)
TsWellFormed ==
    {[str |-> TsString(h, m, sec, f), fields |-> Some([h |-> h, m |-> m, s |-> sec, frac |-> f])] :
        h \in {0, 1, 12}, m \in {0, 7, 59}, sec \in {0, 5, 59},
        f \in {<<>>, <<"5">>, <<"0", "5">>, <<"1", "2">>, <<"1", "2", "3">>,
               <<"0", "0", "0">>, <<"1", "2", "3", "4", "5">>, <<"9", "9", "9", "9">>}}
\* strings that are no HH:MM:SS[.fff]
TsMalformed ==
    {[str |-> t, fields |-> None] :
        t \in {<<>>, TsBad, <<"0", "0", ":", "0", "1">>,
               <<"a", "a", ":", "0", "0", ":", "0", "1">>,
               <<"0", "0", ":", "0", "0", ":", "0", "x">>,
               <<"0", "0", ":", "0", "0", ":", "0", "1", ".", "x">>,
               <<"0", "0", ":", "0", "0", ":", "0", "1", ":", "5">>}}

ParseInit ==
    /\ p = TRUE
    /\ Idle
    /\ probe \in {[fn |-> "input", doc |-> d] : d \in ParseDocs}
                 \cup {[fn |-> "timestamp", ts |-> t] : t \in TsWellFormed \cup TsMalformed}

\* parseTimestamp applied to the string, and segTimesSeconds to a segment that
\* has the string as the end of its timestamps and no other times
ParseTimestampOf(t) ==
    [fn |-> "parseTimestamp", ts |-> t, res |-> parseTimestamp(t.str),
     times |-> segTimesSeconds([NoSeg EXCEPT !.timestamps = Some([from |-> TsFrom, to |-> t.str])])]

ParseTimestamp ==
    /\ probe.fn = "timestamp"
    /\ probe' = ParseTimestampOf(probe.ts)
    /\ UNCHANGED queueVars

\* segTimesSeconds applied to the k-th raw segment of the document
ParseSegTimes(k) ==
    /\ probe.fn = "input"
    /\ LET segs == probe.doc.segments \o probe.doc.transcription IN
         /\ k \in 1..Len(segs)
         /\ probe' = [fn |-> "segTimesSeconds", seg |-> segs[k],
                      times |-> segTimesSeconds(segs[k])]
    /\ UNCHANGED queueVars

\* what process and CreateTranscriptWithSegments make of the segments of the
\* chunk with Index idx: the rows of transcript 1
RowsOfChunk(out, idx) ==
    LET stored == StoredSegments(InputSegments(Shifted(out.segs, ChunkOffset(idx))))
    IN [k \in 1..Len(stored) |-> SegmentRow(1, stored[k])]

ParsedDoc(doc, out) ==
    [fn |-> "parseWhisperJSON", doc |-> doc, out |-> out, rows |-> RowsOfChunk(out, 2)]

\* parseWhisperJSON applied to the document
ParseDoc ==
    /\ probe.fn = "input"
    /\ probe' = ParsedDoc(probe.doc, parseWhisperJSON(probe.doc))
    /\ UNCHANGED queueVars

ParseNext ==
    \/ \E k \in 1..MaxRawSegs : ParseSegTimes(k)
    \/ ParseDoc
    \/ ParseTimestamp

ParseSpec == ParseInit /\ [][ParseNext]_vars

\* ---- chunkAudio applied on its own to audio of a length L with chunks of D seconds ----
MaxAudio == 16

\* the characters of a chunk file's name in byte order
ByteOrder ==
    <<"-", ".">> \o Digits \o <<"L", "Q", "S">>
        \o <<"a", "c", "h", "k", "l", "n", "q", "s", "u", "v", "w">>
ByteOf(c) == CHOOSE k \in 1..Len(ByteOrder) : ByteOrder[k] = c

\* the order of Go strings, which sort.Strings sorts by
RECURSIVE LessFrom(_, _, _)
LessFrom(a, b, i) ==
    IF i > Len(a) THEN i <= Len(b)
    ELSE IF i > Len(b) THEN FALSE
    ELSE IF a[i] = b[i] THEN LessFrom(a, b, i + 1)
    ELSE ByteOf(a[i]) < ByteOf(b[i])
Less(a, b) == LessFrom(a, b, 1)

\* ffmpeg's %03d: the decimal digits of n, zero-padded to at least 3
RECURSIVE Itoa(_)
Itoa(n) == IF n < 10 THEN <<Digits[n + 1]>> ELSE Append(Itoa(n \div 10), Digits[(n % 10) + 1])
RECURSIVE PadLeft3(_)
PadLeft3(d) == IF Len(d) < 3 THEN PadLeft3(<<"0">> \o d) ELSE d
ChunkName(n) == <<"c", "h", "u", "n", "k", "-">> \o PadLeft3(Itoa(n)) \o <<".", "w", "a", "v">>

\* the segment muxer: the n-th file (from 0) holds the audio from n*D on, D
\* seconds of it or what is left
SegmentFiles(L, D) ==
    [k \in 1..((L + D - 1) \div D) |->
        [name |-> ChunkName(k - 1), n |-> k - 1, from |-> (k - 1) * D,
         secs |-> IF k * D <= L THEN D ELSE L - (k - 1) * D]]

\* sort.Strings on the names of the files: the position of each file
Position(files) ==
    <<>> \o [k \in 1..Len(files) |->
                1 + Cardinality({m \in 1..Len(files) : Less(files[m].name, files[k].name)})]

\* chunkAudio after ffmpeg has returned: Glob, sort.Strings, the loop
ChunksOf(files, pos, D) ==
    [i \in 1..Len(files) |->
        [Path |-> files[CHOOSE k \in 1..Len(files) : pos[k] = i].name, Offset |-> (i - 1) * D * 1000, Index |-> i]]
chunkAudio(files, D) == ChunksOf(files, Position(files), D)

ChunkInit ==
    /\ p = TRUE
    /\ Idle
    /\ probe \in {[fn |-> "audio", in |-> a] :
                     a \in {[L |-> l, D |-> d] : l \in 1..MaxAudio, d \in {1, 2, ChunkSeconds}}
                             \cup {[L |-> 47, D |-> ChunkSeconds], [L |-> 2001, D |-> 2]}}

\* ffmpeg writes the chunk files
Ffmpeg ==
    /\ probe.fn = "audio"
    /\ probe' = [fn |-> "ffmpeg", in |-> probe.in, files |-> SegmentFiles(probe.in.L, probe.in.D)]
    /\ UNCHANGED queueVars

\* the rest of chunkAudio
ChunkAudio ==
    /\ probe.fn = "ffmpeg"
    /\ probe' = [fn |-> "chunkAudio", in |-> probe.in, files |-> probe.files,
                 chunks |-> chunkAudio(probe.files, probe.in.D)]
    /\ UNCHANGED queueVars

ChunkNext == Ffmpeg \/ ChunkAudio

ChunkSpec == ChunkInit /\ [][ChunkNext]_vars

\* ---- the merge loop applied on its own to per-chunk segment lists ----
MaxMergeSegs == 2

\* segments that start at 0 s, 5 s and, beyond the chunk's length, 16 s
RECURSIVE ChunkLists(_)
ChunkLists(n) ==
    IF n = 0 THEN {<<>>}
    ELSE ChunkLists(n - 1)
         \cup {Append(q, s) : q \in ChunkLists(n - 1),
                s \in {[Start |-> t, End |-> t + 1000, Text |-> <<"a">>] : t \in {0, 5000, 16000}}}

\* the loop of process (lines 107-134) over the chunks in the given order:
\* combined = append(combined, segment moved by ch.Offset)
RECURSIVE MergeChunks(_, _)
MergeChunks(lists, order) ==
    IF order = <<>> THEN <<>>
    ELSE Shifted(lists[Head(order)], ChunkOffset(Head(order)))
         \o MergeChunks(lists, Tail(order))

MergeInit ==
    /\ p = TRUE
    /\ Idle
    /\ probe \in {[fn |-> "input", lists |-> l, order |-> o] :
                     l \in UNION {[1..n -> ChunkLists(MaxMergeSegs)] : n \in 1..MaxChunks},
                     o \in UNION {{f \in [1..n -> 1..n] : \A a, b \in 1..n : f[a] = f[b] => a = b} :
                                     n \in 1..MaxChunks}}
    /\ Len(probe.lists) = Len(probe.order)

ApplyMerge ==
    /\ probe.fn = "input"
    /\ probe' = [fn |-> "merge", lists |-> probe.lists, order |-> probe.order,
                 inOrder |-> MergeChunks(probe.lists, [i \in 1..Len(probe.lists) |-> i]),
                 anyOrder |-> MergeChunks(probe.lists, probe.order)]
    /\ UNCHANGED queueVars

MergeNext == ApplyMerge

MergeSpec == MergeInit /\ [][MergeNext]_vars

\* ---- Runner.Run (pipeline.go), the pipeline without the queue ----
\* the loop of Run over the engine runs of chunks i..: an error ends it
RECURSIVE RunLoop(_, _, _)
RunLoop(runs, i, l) ==
    IF i > Len(runs) THEN [err |-> NullStr, l |-> l]
    ELSE IF transcribeChunk(runs[i]).err # NullStr
    THEN [err |-> transcribeChunk(runs[i]).err, l |-> NoLoc]
    ELSE RunLoop(runs, i + 1,
                 Accumulate([l EXCEPT !.current = i], transcribeChunk(runs[i]).out))

NoResult == [Language |-> None, Text |-> <<>>, Segments |-> <<>>, Duration |-> NullInt]

\* Run for chunks whose engine runs are `runs`: [err, result]; Duration is
\* `maxEnd`, nil for no segment
Run(runs) ==
    IF ChunkSeconds <= 0 THEN [err |-> "invalid chunk seconds", result |-> NoResult]
    ELSE IF Len(runs) = 0 THEN [err |-> "no chunks produced", result |-> NoResult]
    ELSE IF RunLoop(runs, 1, NoLoc).err # NullStr
    THEN [err |-> RunLoop(runs, 1, NoLoc).err, result |-> NoResult]
    ELSE [err |-> NullStr,
          result |-> [Language |-> RunLoop(runs, 1, NoLoc).l.lang,
                      Text |-> Join(RunLoop(runs, 1, NoLoc).l.textParts),
                      Segments |-> RunLoop(runs, 1, NoLoc).l.combined,
                      Duration |->
                          LET all == RunLoop(runs, 1, NoLoc).l.combined
                          IN IF all = <<>> THEN NullInt
                             ELSE CHOOSE e \in {all[k].End : k \in DOMAIN all} :
                                      \A k \in DOMAIN all : all[k].End <= e]]

\* ---- pollJobStatus of the two clients ----
maxAttempts == 300

\* attempts++; if (attempts < maxAttempts) setTimeout(poll, delay)
Again(c, r, delay) ==
    [c EXCEPT !.attempts = @ + 1, !.seen = r,
              !.phase = IF c.attempts + 1 < maxAttempts THEN "timer" ELSE "done",
              !.delay = IF c.attempts + 1 < maxAttempts THEN delay ELSE 0]

Stop(c, r) == [c EXCEPT !.seen = r, !.phase = "done", !.delay = 0]

\* a poll that goes on after a completed or failed job
OnReplyKeepGoing(c, r) ==
    IF r = "error" THEN Again(c, r, 2000)
    ELSE IF r = "queued" /\ c.impl = "app" THEN Stop(c, r)
    ELSE Again(c, r, 1000)

\* the body of poll after the request has resolved
OnReply(c, r) ==
    IF r = "error" THEN Again(c, r, 2000)
    ELSE IF r \in {"completed", "failed"} THEN Stop(c, r)
    ELSE IF r = "queued" /\ c.impl = "app" THEN Stop(c, r)
    ELSE Again(c, r, 1000)

\* the two copies of pollJobStatus: the plain script and the UploadArea component
ClientInit ==
    /\ p = TRUE
    /\ Idle
    /\ probe \in {[fn |-> "pollJobStatus", impl |-> i, attempts |-> 0, requests |-> 0,
                    phase |-> "timer", delay |-> 0, seen |-> "none"] :
                      i \in {"app", "UploadArea"}}

\* poll() runs, at once or when its timer fires, and sends the status request
ClientRequest ==
    /\ probe.fn = "pollJobStatus"
    /\ probe.phase = "timer"
    /\ probe' = [probe EXCEPT !.phase = "fetch", !.requests = @ + 1, !.delay = 0]
    /\ UNCHANGED queueVars

\* the request resolves or rejects
ClientResolve(r) ==
    /\ probe.fn = "pollJobStatus"
    /\ probe.phase = "fetch"
    /\ r = "notok" => probe.impl = "app"
    /\ probe' = OnReply(probe, r)
    /\ UNCHANGED queueVars

\* what a status request resolves to: a job with one of five statuses, a
\* response that is not ok (seen by the script, which calls fetch itself), or
\* a rejected promise
ClientNext ==
    \/ ClientRequest
    \/ \E r \in {"completed", "failed", "processing", "pending", "queued", "notok", "error"} :
          ClientResolve(r)

ClientSpec == ClientInit /\ [][ClientNext]_vars

\* a timer that was set fires and a request that was sent resolves or rejects
ClientFairSpec == ClientSpec /\ WF_vars(ClientNext)

\* ---- the upload library page (+page.svelte): current and segments ----
MaxCalls == 3
UploadIds == {1, 2}

\* the page after its first refresh: nothing open, no call of selectUpload
\* running; calls holds the running calls in the order they were started
PageInit ==
    /\ p = TRUE
    /\ Idle
    /\ probe = [fn |-> "page", current |-> 0, segments |-> 0, selected |-> 0,
                calls |-> <<>>, started |-> 0, deleted |-> {}, deleting |-> {}]

RemoveAt(q, k) == SubSeq(q, 1, k - 1) \o SubSeq(q, k + 1, Len(q))

\* selectUpload(id) up to its first await: api.getUpload(id) is sent
StartSelect(pg, id, by) ==
    [pg EXCEPT !.calls = Append(@, [id |-> id, await |-> "getUpload", by |-> by]),
               !.started = @ + 1]

\* the user opens an upload of the list
UserSelect(id) ==
    /\ probe.fn = "page"
    /\ probe.started < MaxCalls
    /\ id \in UploadIds \ probe.deleted
    /\ probe' = [StartSelect(probe, id, "user") EXCEPT !.selected = id]
    /\ UNCHANGED queueVars

\* the 1 s timer: if (current?.id) await selectUpload(current.id)
TimerSelect ==
    /\ probe.fn = "page"
    /\ probe.started < MaxCalls
    /\ probe.current # 0
    /\ probe' = StartSelect(probe, probe.current, "timer")
    /\ UNCHANGED queueVars

\* api.getUpload of the k-th running call resolves: current is assigned and
\* api.getSegments is sent
UploadResolved(k) ==
    /\ probe.fn = "page"
    /\ k \in DOMAIN probe.calls
    /\ probe.calls[k].await = "getUpload"
    /\ probe' = [probe EXCEPT !.current = probe.calls[k].id,
                              !.calls[k].await = "getSegments"]
    /\ UNCHANGED queueVars

\* api.getSegments of the k-th running call resolves: segments is assigned
SegmentsResolved(k) ==
    /\ probe.fn = "page"
    /\ k \in DOMAIN probe.calls
    /\ probe.calls[k].await = "getSegments"
    /\ probe' = [probe EXCEPT !.segments = probe.calls[k].id,
                              !.calls = RemoveAt(@, k)]
    /\ UNCHANGED queueVars

\* a request for an upload that the server has deleted rejects: the call ends
RequestRejected(k) ==
    /\ probe.fn = "page"
    /\ k \in DOMAIN probe.calls
    /\ probe.calls[k].id \in probe.deleted
    /\ probe' = [probe EXCEPT !.calls = RemoveAt(@, k)]
    /\ UNCHANGED queueVars

\* deleteUpload(u) up to its await: the server deletes the upload
DeleteSent(u) ==
    /\ probe.fn = "page"
    /\ u \in UploadIds \ (probe.deleted \cup probe.deleting)
    /\ probe' = [probe EXCEPT !.deleted = @ \cup {u}, !.deleting = @ \cup {u}]
    /\ UNCHANGED queueVars

\* api.deleteUpload resolves: if (current?.id === u.id) current = null, segments = []
DeleteResolved(u) ==
    /\ probe.fn = "page"
    /\ u \in probe.deleting
    /\ probe' = [probe EXCEPT !.deleting = @ \ {u},
                              !.current = IF @ = u THEN 0 ELSE @,
                              !.segments = IF probe.current = u THEN 0 ELSE @]
    /\ UNCHANGED queueVars

PageNext ==
    \/ \E id \in UploadIds : UserSelect(id)
    \/ TimerSelect
    \/ \E k \in 1..MaxCalls : UploadResolved(k)
    \/ \E k \in 1..MaxCalls : SegmentsResolved(k)
    \/ \E k \in 1..MaxCalls : RequestRejected(k)
    \/ \E u \in UploadIds : DeleteSent(u)
    \/ \E u \in UploadIds : DeleteResolved(u)

PageSpec == PageInit /\ [][PageNext]_vars

\* ---- migrateFromDir (db.go) over several starts of the process ----
MaxStarts == 3

\* strings.ToLower and strings.HasSuffix for the names of the directory
ToLower(str) == [i \in 1..Len(str) |-> IF str[i] = "S" THEN "s" ELSE IF str[i] = "Q" THEN "q" ELSE IF str[i] = "L" THEN "l" ELSE str[i]]
HasSuffix(str, suf) ==
    Len(str) >= Len(suf) /\ SubSeq(str, Len(str) - Len(suf) + 1, Len(str)) = suf

\* what the migrations directory may hold: 10.SQL, 2.sql and 9.sql, a sound
\* file and a directory named like a migration
DirEntries ==
    {[name |-> <<"1", "0", ".", "S", "Q", "L">>, isDir |-> FALSE],
     [name |-> <<"2", ".", "s", "q", "l">>, isDir |-> FALSE],
     [name |-> <<"9", ".", "s", "q", "l">>, isDir |-> FALSE],
     [name |-> <<"a", ".", "w", "a", "v">>, isDir |-> FALSE],
     [name |-> <<"1", ".", "s", "q", "l">>, isDir |-> TRUE]}

\* sort.Strings: the names of a set in ascending order
RECURSIVE SortStrings(_)
SortStrings(names) ==
    IF names = {} THEN <<>>
    ELSE LET least == CHOOSE n \in names : \A m \in names \ {n} : Less(n, m)
         IN <<least>> \o SortStrings(names \ {least})

\* ListFromDir: the Version of every migration, in the order they are applied
ListFromDir(dir) ==
    SortStrings({e.name : e \in {d \in dir : ~d.isDir /\ HasSuffix(ToLower(d.name), <<".", "s", "q", "l">>)}})

NoMigTx == [open |-> FALSE, sql |-> FALSE, row |-> FALSE]

\* the database and the directory before the first start; changes and
\* recorded are what is committed, applied and tried are the history
MigrateInit ==
    /\ p = TRUE
    /\ Idle
    /\ probe = [fn |-> "migrate", dir |-> {}, changes |-> {}, recorded |-> {},
                pc |-> "stopped", migs |-> <<>>, tx |-> NoMigTx, starts |-> 0,
                applied |-> <<>>, tried |-> <<>>]

\* a release adds a file to the directory while the process is down
AddEntry(e) ==
    /\ probe.fn = "migrate"
    /\ probe.pc = "stopped"
    /\ e \in DirEntries \ probe.dir
    /\ probe' = [probe EXCEPT !.dir = @ \cup {e}]
    /\ UNCHANGED queueVars

\* the process starts: ListFromDir, CREATE TABLE IF NOT EXISTS, SELECT version
\* (the loop skips the versions found there)
StartMigrate ==
    /\ probe.fn = "migrate"
    /\ probe.pc = "stopped"
    /\ probe.starts < MaxStarts
    /\ probe' = [probe EXCEPT !.starts = @ + 1, !.pc = "loop",
                              !.migs = SelectSeq(ListFromDir(probe.dir),
                                                 LAMBDA v : v \notin probe.recorded)]
    /\ UNCHANGED queueVars

\* the loop is over: migrateFromDir returns nil
MigrateDone ==
    /\ probe.fn = "migrate"
    /\ probe.pc = "loop"
    /\ probe.migs = <<>>
    /\ probe' = [probe EXCEPT !.pc = "stopped"]
    /\ UNCHANGED queueVars

\* db.BeginTx for the next migration that is not applied
MigrateBegin ==
    /\ probe.fn = "migrate"
    /\ probe.pc = "loop"
    /\ probe.migs # <<>>
    /\ probe' = [probe EXCEPT !.pc = "tx", !.tx = [NoMigTx EXCEPT !.open = TRUE],
                              !.tried = Append(@, [start |-> probe.starts,
                                                   version |-> Head(probe.migs)])]
    /\ UNCHANGED queueVars

\* a failed step that leaves the changes of the migration's SQL behind
MigrateFailedKeepingChanges(pg) ==
    [pg EXCEPT !.pc = "stopped", !.tx = NoMigTx, !.migs = <<>>,
               !.changes = IF pg.tx.sql THEN @ \cup {Head(pg.migs)} ELSE @]

\* tx.Rollback and the error return; a killed process leaves the same
MigrateFailed(pg) == [pg EXCEPT !.pc = "stopped", !.tx = NoMigTx, !.migs = <<>>]

\* tx.ExecContext(m.SQL)
MigrateSQL(ok) ==
    /\ probe.fn = "migrate"
    /\ probe.pc = "tx"
    /\ ~probe.tx.sql
    /\ probe' = IF ok THEN [probe EXCEPT !.tx.sql = TRUE] ELSE MigrateFailed(probe)
    /\ UNCHANGED queueVars

\* INSERT INTO schema_migrations(version)
MigrateRecord(ok) ==
    /\ probe.fn = "migrate"
    /\ probe.pc = "tx"
    /\ probe.tx.sql /\ ~probe.tx.row
    /\ probe' = IF ok THEN [probe EXCEPT !.tx.row = TRUE] ELSE MigrateFailed(probe)
    /\ UNCHANGED queueVars

\* tx.Commit
MigrateCommit(ok) ==
    /\ probe.fn = "migrate"
    /\ probe.pc = "tx"
    /\ probe.tx.row
    /\ probe' = IF ok
                THEN [probe EXCEPT !.pc = "loop", !.tx = NoMigTx, !.migs = Tail(@),
                                   !.changes = @ \cup {Head(probe.migs)},
                                   !.recorded = @ \cup {Head(probe.migs)},
                                   !.applied = Append(@, [start |-> probe.starts,
                                                          version |-> Head(probe.migs)])]
                ELSE MigrateFailed(probe)
    /\ UNCHANGED queueVars

MigrateNext ==
    \/ \E e \in DirEntries : AddEntry(e)
    \/ StartMigrate
    \/ MigrateDone
    \/ MigrateBegin
    \/ \E ok \in BOOLEAN : MigrateSQL(ok)
    \/ \E ok \in BOOLEAN : MigrateRecord(ok)
    \/ \E ok \in BOOLEAN : MigrateCommit(ok)

MigrateSpec == MigrateInit /\ [][MigrateNext]_vars

\* ---- UpdateJobProgress applied on its own to a table of two jobs ----
\* a row of any content beside a new one, and any arguments (job 3 is absent)
UpdateInit ==
    /\ p = TRUE
    /\ Idle
    /\ probe \in {[fn |-> "args", tbl |-> <<r, NewJobRow(2, InitialProgress)>>, args |-> a] :
                     r \in {[conversation_id |-> 1, status |-> st, progress |-> pr,
                             total_chunks |-> tc, current_chunk |-> cc, result |-> rs,
                             transcript_id |-> ti] :
                               st \in {"pending", "processing"}, pr \in {InitialProgress, 50},
                               tc \in {NullInt, 2}, cc \in {NullInt, 0, 1},
                               rs \in {NullStr, "boom"}, ti \in {NullInt, 7}},
                     a \in {[jobID |-> id, status |-> st, progress |-> pr, totalChunks |-> tc,
                             currentChunk |-> cc, result |-> rs, transcriptID |-> ti] :
                               id \in 1..3, st \in {"processing", "failed"},
                               pr \in {80, FailedProgress}, tc \in {NullInt, 3},
                               cc \in {NullInt, 2}, rs \in {NullStr, "success"},
                               ti \in {NullInt, 9}}}

ApplyUpdate ==
    /\ probe.fn = "args"
    /\ probe' = [fn |-> "UpdateJobProgress", tbl |-> probe.tbl, args |-> probe.args,
                 out |-> UpdateJobProgress(probe.tbl, probe.args.jobID, probe.args.status,
                                           probe.args.progress, probe.args.totalChunks,
                                           probe.args.currentChunk, probe.args.result,
                                           probe.args.transcriptID)]
    /\ UNCHANGED queueVars

UpdateNext == ApplyUpdate

UpdateSpec == UpdateInit /\ [][UpdateNext]_vars

\* ---- storing and listing the merged segments of one job on their own ----
MaxListSegs == 3

\* merged segments: two that differ in text only and a later one
ListSegs ==
    {[Start |-> 0, End |-> 1000, Text |-> <<"a">>],
     [Start |-> 0, End |-> 1000, Text |-> <<"b">>],
     [Start |-> 5000, End |-> 6000, Text |-> <<"a">>]}

RECURSIVE CombinedLists(_)
CombinedLists(n) ==
    IF n = 0 THEN {<<>>}
    ELSE CombinedLists(n - 1) \cup {Append(q, s) : q \in CombinedLists(n - 1), s \in ListSegs}

\* the tables before the job's transcript is stored: transcript 1 of
\* conversation 2 with one segment
ListInit ==
    /\ p = TRUE
    /\ Idle
    /\ probe \in {[fn |-> "combined", combined |-> c,
                    transcripts |-> <<TranscriptRow(2, <<"z">>, NullInt, None)>>,
                    segments |-> <<SegmentRow(1, [Start |-> 2000, End |-> 3000,
                                                  Text |-> <<"z">>])>>] :
                      c \in CombinedLists(MaxListSegs)}

\* the segment rows of CreateTranscriptWithSegments
InsertedSegments(tbl, transcriptID, segments) ==
    tbl \o [k \in 1..Len(StoredSegments(segments)) |->
                SegmentRow(transcriptID, StoredSegments(segments)[k])]

\* SELECT id FROM transcripts WHERE conversation_id = ?
TranscriptIdOf(tbl, conversationID) ==
    CHOOSE t \in DOMAIN tbl : tbl[t].conversation_id = conversationID

\* the TranscriptSegment scanned from row k
ScanSegment(tbl, k) ==
    [ID |-> k, StartTime |-> tbl[k].start_time, EndTime |-> tbl[k].end_time,
     Text |-> tbl[k].text]

\* a listing that gives each (start, end, text) once
ListTranscriptSegmentsDistinct(segTbl, transcriptID) ==
    LET ids == {k \in DOMAIN segTbl : segTbl[k].transcript_id = transcriptID}
        firsts == {k \in ids : \A m \in ids : m < k => segTbl[m] # segTbl[k]}
    IN {[i \in 1..Cardinality(firsts) |-> ScanSegment(segTbl, f[i])] :
          f \in {g \in [1..Cardinality(firsts) -> firsts] :
                   /\ \A a, b \in DOMAIN g : g[a] = g[b] => a = b
                   /\ \A a \in 1..(Cardinality(firsts) - 1) :
                         segTbl[g[a]].start_time <= segTbl[g[a + 1]].start_time}}

\* WHERE transcript_id = ? ORDER BY start_time ASC: every order of the rows
\* that is ascending in start_time (rows of equal start_time come in any order)
ListTranscriptSegments(segTbl, transcriptID) ==
    LET ids == {k \in DOMAIN segTbl : segTbl[k].transcript_id = transcriptID}
    IN {[i \in 1..Cardinality(ids) |-> ScanSegment(segTbl, f[i])] :
          f \in {g \in [1..Cardinality(ids) -> ids] :
                   /\ \A a, b \in DOMAIN g : g[a] = g[b] => a = b
                   /\ \A a \in 1..(Cardinality(ids) - 1) :
                         segTbl[g[a]].start_time <= segTbl[g[a + 1]].start_time}}

\* process from inputSegments on: the transcript of conversation 1 is stored
\* by CreateTranscriptWithSegments as one committed transaction
StoreCombined ==
    /\ probe.fn = "combined"
    /\ probe' = [fn |-> "stored", combined |-> probe.combined,
                 transcripts |-> Append(probe.transcripts,
                                        TranscriptRow(1, <<"t">>, NullInt, None)),
                 segments |-> InsertedSegments(probe.segments, Len(probe.transcripts) + 1,
                                               InputSegments(probe.combined))]
    /\ UNCHANGED queueVars

\* GET /conversations/1/transcript/segments
ListSegments ==
    /\ probe.fn = "stored"
    /\ \E out \in ListTranscriptSegments(probe.segments, TranscriptIdOf(probe.transcripts, 1)) :
          probe' = [fn |-> "listed", combined |-> probe.combined,
                    transcripts |-> probe.transcripts, segments |-> probe.segments,
                    out |-> out]
    /\ UNCHANGED queueVars

ListNext == StoreCombined \/ ListSegments

ListSpec == ListInit /\ [][ListNext]_vars

\* ---- observers ----
Terminal == {"completed", "failed"}
Created == DOMAIN processing_jobs
Status(j) == processing_jobs[j].status
TranscriptsOf(j) ==
    {t \in DOMAIN transcripts : transcripts[t].conversation_id =
                                  processing_jobs[j].conversation_id}
SegmentsOf(j) ==
    {s \in DOMAIN transcript_segments :
        transcript_segments[s].transcript_id \in TranscriptsOf(j)}
OrphanSegments ==
    {s \in DOMAIN transcript_segments :
        transcript_segments[s].transcript_id \notin DOMAIN transcripts}

\* ---- status reads (store.go) ----
\* a read that reports the result column as the error whatever the status
ErrorOfAnyStatus(row) == row.result

\* `if result.Valid && job.Status == "failed" { job.Error = &result.String }`
ErrorOf(row) == IF row.result # NullStr /\ row.status = "failed" THEN row.result ELSE NullStr

\* the ProcessingJob the two reads build from a row
ScanJob(row) ==
    [Status |-> row.status, Progress |-> row.progress,
     TotalChunks |-> row.total_chunks, CurrentChunk |-> row.current_chunk,
     TranscriptID |-> row.transcript_id, Error |-> ErrorOf(row)]

GetJobByID(id) == ScanJob(processing_jobs[id])

\* ORDER BY created_at DESC, id DESC LIMIT 1
GetLatestJobForConversation(conversationID) ==
    LET ids == {j \in Created : processing_jobs[j].conversation_id = conversationID}
    IN ScanJob(processing_jobs[CHOOSE j \in ids : \A k \in ids : k <= j])

Conversations == {processing_jobs[j].conversation_id : j \in Created}

\* ---- the status endpoints polled while the queue works ----
\* the tables as a poll finds and leaves them
Tables == <<processing_jobs, transcripts, transcript_segments>>

\* a status read that also marks the row as seen
PollJobMarking(id) ==
    /\ id \in Created
    /\ probe' = [fn |-> "GetJobByID", id |-> id, reply |-> GetJobByID(id),
                 writes |-> Len(log[id])]
    /\ processing_jobs' = [processing_jobs EXCEPT ![id].progress = 0]
    /\ UNCHANGED <<p, transcripts, transcript_segments, accepted, ch, pc, job, expired,
                   workDir, loc, tx, lastWrite, hist, log>>

\* GET /jobs/{jobID}: 404 for an unknown id, else the job as GetJobByID reads it
PollJob(id) ==
    /\ id \in Created
    /\ probe' = [fn |-> "GetJobByID", id |-> id, reply |-> GetJobByID(id),
                 writes |-> Len(log[id])]
    /\ UNCHANGED queueVars

\* GET /conversations/{id}/job
PollLatest(conversationID) ==
    /\ conversationID \in Conversations
    /\ probe' = [fn |-> "GetLatestJobForConversation", id |-> conversationID,
                 reply |-> GetLatestJobForConversation(conversationID),
                 writes |-> Len(log[conversationID])]
    /\ UNCHANGED queueVars

\* worker 1 takes the jobs while a client polls for job 1 and conversation 1
PollNext ==
    \/ Next /\ \A w \in Workers \ {1} : pc'[w] = "idle"
    \/ \E id \in {1} : PollJob(id)
    \/ \E id \in {1} : PollLatest(id)

PollSpec == Init /\ [][PollNext]_vars

\* the committed segment rows of the transcript a job points to, in rowid order
SegmentRowsOf(j) ==
    LET Mine(r) == r.transcript_id = processing_jobs[j].transcript_id
    IN SelectSeq(transcript_segments, Mine)

TranscriptOf(j) == transcripts[processing_jobs[j].transcript_id]


\* ---- properties ----

\* C1: once a job's durable status is completed or failed, no step of any
\* worker changes its status.
C1_TerminalStatesFinal ==
    [][\A j \in Created :
          Status(j) \in Terminal => processing_jobs'[j].status = Status(j)]_vars

C1_Witness ==
    \E j, k \in Created :
        /\ Status(j) = "failed" /\ hist[j].returned
        /\ Status(k) = "completed" /\ hist[k].returned

\* C2: the progress stored in a job's record never decreases, from the row
\* CreateJob inserts through every update of process.
C2_ProgressNonDecreasing ==
    [][\A j \in Created :
          processing_jobs'[j].progress >= processing_jobs[j].progress]_vars

C2_Witness ==
    \E j, k \in Created :
        /\ Status(j) = "completed" /\ processing_jobs[j].total_chunks = MaxChunks
        /\ Status(k) = "failed" /\ processing_jobs[k].current_chunk = 1

\* C3: a job whose deadline passed while ffmpeg or the engine was running ends
\* failed with an error recorded; it is not left processing.
C3_DeadlineMarksFailed ==
    \A j \in Created :
        (hist[j].timedOutAt \in {"chunking", "transcribing"} /\ hist[j].returned) =>
            (Status(j) = "failed" /\ processing_jobs[j].result # NullStr)

\* C4: a job that failed at chunk k of N ends with status failed, an error,
\* and no transcript row and no segment row.
C4_FailedChunkLeavesFailedJob ==
    \A j \in Created :
        hist[j].failStage = "transcribe" =>
            /\ Status(j) = "failed"
            /\ processing_jobs[j].result # NullStr
            /\ TranscriptsOf(j) = {}
            /\ SegmentsOf(j) = {}

\* C5: when segmentation, transcription or persistence fails, the job becomes
\* failed with an error and its progress is the value recorded before the failure.
C5_FailureKeepsProgress ==
    \A j \in Created :
        hist[j].failStage \in {"chunk", "transcribe", "persist"} =>
            /\ Status(j) = "failed"
            /\ processing_jobs[j].result # NullStr
            /\ processing_jobs[j].progress = hist[j].progAtFail

\* C6: in every state a reader can see, a job has either its transcript row
\* with all of its segment rows, or no row at all.
C6_PersistIsAtomic ==
    /\ OrphanSegments = {}
    /\ \A j \in Created :
          \/ TranscriptsOf(j) = {} /\ SegmentsOf(j) = {}
          \/ /\ Cardinality(TranscriptsOf(j)) = 1
             /\ Cardinality(SegmentsOf(j)) = hist[j].wanted

C6_Witness ==
    \E j, k \in Created :
        /\ Cardinality(SegmentsOf(j)) >= 2
        /\ hist[k].failStage = "persist" /\ hist[k].wanted >= 1

\* C7: after any persistence error the job is marked failed and none of its
\* transcript or segment rows remains.
C7_PersistErrorLeavesFailedJob ==
    \A j \in Created :
        hist[j].failStage = "persist" =>
            /\ Status(j) = "failed"
            /\ TranscriptsOf(j) = {}
            /\ SegmentsOf(j) = {}

\* C8: every enqueued job is handed to exactly one worker: it is in the channel
\* or has been received once, a received job is held by one worker until that
\* worker returns, and is never received again.
InChannel(j) == Cardinality({i \in 1..Len(ch) : ch[i] = j})
Holders(j) == {w \in Workers : job[w] = j}

C8_ExactlyOneWorker ==
    \A j \in JobIds :
        /\ hist[j].claims <= 1
        /\ hist[j].enqueued => InChannel(j) + hist[j].claims = 1
        /\ ~hist[j].enqueued => InChannel(j) = 0 /\ hist[j].claims = 0
        /\ Cardinality(Holders(j)) + (IF hist[j].returned THEN 1 ELSE 0)
              = hist[j].claims

C8_Witness ==
    /\ job[1] # 0 /\ job[2] # 0 /\ job[1] # job[2]
    /\ pc[1] = "transcribing" /\ pc[2] = "transcribing"

\* C9: a job is never pending or processing once its worker has stopped
\* working on it, so every accepted job ends completed or failed.
C9_ReturnedJobIsTerminal ==
    \A j \in Created : hist[j].returned => Status(j) \in Terminal

\* C10: a worker has a subprocess running, a transaction open or the result
\* committed only after its preceding record update was written.
C10_WrittenBeforeProceeding ==
    \A w \in Workers :
        pc[w] \in {"chunking", "transcribing", "tx_segs", "tx_commit", "complete"}
            => lastWrite[w] = "ok"

\* C11: a completed job with N >= 1 chunks has held exactly the values
\* (pending, 5), (processing, 10), (processing, 15), (processing,
\* 15 + floor(65 i / N)) for i = 1..N, (processing, 85), (completed, 100), in
\* this order, and its row shows total_chunks = N and a transcript id.
ExpectedLog(n) ==
    <<<<"pending", 5>>, <<"processing", 10>>, <<"processing", 15>>>>
    \o [i \in 1..n |-> <<"processing", 15 + (65 * i) \div n>>]
    \o <<<<"processing", 85>>, <<"completed", 100>>>>

C11_SuccessfulJobLog ==
    \A j \in Created :
        Status(j) = "completed" /\ hist[j].n >= 1
            => /\ log[j] = ExpectedLog(hist[j].n)
               /\ processing_jobs[j].total_chunks = hist[j].n
               /\ processing_jobs[j].transcript_id # NullInt

JobStateOK(r) ==
    /\ r.Error # NullStr => r.Status = "failed"
    /\ r.TranscriptID # NullInt => r.Status = "completed"
    /\ r.Status = "completed" => r.TranscriptID # NullInt

C14_DurationIsMaxEnd ==
    \A j \in Created :
        Status(j) = "completed" /\ SegmentRowsOf(j) # <<>>
            => \E k \in DOMAIN SegmentRowsOf(j) :
                  /\ TranscriptOf(j).duration = SegmentRowsOf(j)[k].end_time
                  /\ \A m \in DOMAIN SegmentRowsOf(j) :
                        SegmentRowsOf(j)[m].end_time <= SegmentRowsOf(j)[k].end_time

\* C15 as stated: the transcript of a completed job without segment rows has
\* the empty text and a NULL duration.
C15_NoSegmentsEmptyText ==
    \A j \in Created :
        Status(j) = "completed" /\ SegmentRowsOf(j) = <<>>
            => /\ TranscriptOf(j).transcript_text = <<>>
               /\ TranscriptOf(j).duration = NullInt

\* the trimmed top-level texts of the documents that have one, in order
RECURSIVE TopLevelTexts(_)
TopLevelTexts(raws) ==
    IF raws = <<>> THEN <<>>
    ELSE (IF TrimSpace(Head(raws).text) # <<>> THEN <<TrimSpace(Head(raws).text)>>
          ELSE <<>>) \o TopLevelTexts(Tail(raws))

\* C15 amended: the transcript of a completed job without segment rows has a
\* NULL duration, and its text is the space-join of the non-blank top-level
\* texts the engine gave for the chunks (empty when it gave none).
C15_NoSegmentsTopLevelText ==
    \A j \in Created :
        Status(j) = "completed" /\ SegmentRowsOf(j) = <<>>
            => /\ TranscriptOf(j).transcript_text = Join(TopLevelTexts(hist[j].raws))
               /\ TranscriptOf(j).duration = NullInt

C15_Witness ==
    \E j, k \in Created :
        /\ Status(j) = "completed" /\ SegmentRowsOf(j) = <<>>
        /\ TranscriptOf(j).transcript_text = <<"b">>
        /\ Status(k) = "completed" /\ SegmentRowsOf(k) = <<>>
        /\ TranscriptOf(k).transcript_text = <<>>

\* the normalized segments of chunks i.. of raws, each moved by (i-1) chunk
\* lengths
RECURSIVE ExpectedSegments(_, _)
ExpectedSegments(raws, i) ==
    IF i > Len(raws) THEN <<>>
    ELSE LET segs == parseWhisperJSON(raws[i]).segs IN
         [k \in 1..Len(segs) |->
             [start_time |-> segs[k].Start + (i - 1) * ChunkSeconds * 1000,
              end_time |-> segs[k].End + (i - 1) * ChunkSeconds * 1000,
              text |-> segs[k].Text]]
         \o ExpectedSegments(raws, i + 1)

\* C16: the segment rows of a completed job are, in row order, the normalized
\* segments of chunk 1, then of chunk 2, ..., each with (chunk index - 1) *
\* chunk length added once to start and end; every chunk was transcribed.
C16_SegmentsAreShiftedConcatenation ==
    \A j \in Created :
        Status(j) = "completed"
            => /\ Len(hist[j].raws) = hist[j].n
               /\ [k \in DOMAIN SegmentRowsOf(j) |->
                     [start_time |-> SegmentRowsOf(j)[k].start_time,
                      end_time |-> SegmentRowsOf(j)[k].end_time,
                      text |-> SegmentRowsOf(j)[k].text]]
                  = ExpectedSegments(hist[j].raws, 1)

C16_Witness ==
    \E j \in Created :
        /\ Status(j) = "completed"
        /\ Len(SegmentRowsOf(j)) = 2
        /\ SegmentRowsOf(j)[1].start_time = 0
        /\ SegmentRowsOf(j)[2].start_time = 15000
        /\ SegmentRowsOf(j)[2].end_time = 16000

\* the text of one chunk: the engine's top-level text if it is not blank,
\* otherwise the space-join of the texts of the segments that survived
ChunkText(raw) ==
    IF TrimSpace(raw.text) # <<>> THEN TrimSpace(raw.text)
    ELSE LET segs == parseWhisperJSON(raw).segs
         IN Join([k \in 1..Len(segs) |-> segs[k].Text])

RECURSIVE NonEmptyChunkTexts(_)
NonEmptyChunkTexts(raws) ==
    IF raws = <<>> THEN <<>>
    ELSE (IF TrimSpace(ChunkText(Head(raws))) # <<>>
          THEN <<TrimSpace(ChunkText(Head(raws)))>> ELSE <<>>)
         \o NonEmptyChunkTexts(Tail(raws))

\* C18: the text of a completed job's transcript is the single-space join, in
\* chunk order, of the chunk texts that are not empty after trimming.
C18_TextIsJoinOfChunkTexts ==
    \A j \in Created :
        Status(j) = "completed"
            => TranscriptOf(j).transcript_text
                  = Join(NonEmptyChunkTexts(hist[j].raws))

C18_Witness ==
    \E j, k \in Created :
        /\ Status(j) = "completed"
        /\ TranscriptOf(j).transcript_text = <<"a", " ", "b">>
        /\ Status(k) = "completed" /\ Len(hist[k].raws) = 2
        /\ TranscriptOf(k).transcript_text = <<"a">>

\* what each strategy yields for a raw segment, in the order of priority:
\* the millisecond pair, start/end, t0/t1 in 10 ms units, the timestamp strings
Strategies(s) ==
    <<IF s.offsets # None /\ s.offsets[1].from # None /\ s.offsets[1].to # None
      THEN Some(<<s.offsets[1].from[1], s.offsets[1].to[1]>>) ELSE None,
      IF s.start # None /\ s.end # None THEN Some(<<s.start[1], s.end[1]>>) ELSE None,
      IF s.t0 # None /\ s.t1 # None THEN Some(<<10 * s.t0[1], 10 * s.t1[1]>>) ELSE None,
      LET ts == IF s.timestamps # None THEN s.timestamps ELSE s.timestanps IN
      IF ts # None /\ parseTimestamp(ts[1].from).ok /\ parseTimestamp(ts[1].to).ok
      THEN Some(<<parseTimestamp(ts[1].from).v, parseTimestamp(ts[1].to).v>>)
      ELSE None>>

\* C19: the times of a raw segment are those of the first strategy, in the
\* order ms pair, start/end, t0/t1, timestamp strings, that yields both a
\* start and an end; when none does the segment has no times. All times are
\* in milliseconds: {from: 1000, to: 2500} gives 1000 and 2500, {t0: 150,
\* t1: 300} gives 1500 and 3000.
C19_FirstUsableStrategy ==
    probe.fn = "segTimesSeconds" =>
        LET st == Strategies(probe.seg)
            usable == {i \in 1..4 : st[i] # None}
        IN IF usable = {} THEN ~probe.times.ok
           ELSE LET first == CHOOSE i \in usable : \A k \in usable : i <= k
                IN /\ probe.times.ok
                   /\ <<probe.times.start, probe.times.end>> = st[first][1]

C19_Witness ==
    /\ probe.fn = "segTimesSeconds"
    /\ probe.seg.offsets # None /\ probe.seg.offsets[1].to = None
    /\ probe.seg.start = None /\ probe.seg.end = None
    /\ probe.seg.t0 = Some(150) /\ probe.seg.t1 = Some(300)
    /\ probe.seg.timestamps # None
    /\ probe.times = [start |-> 1500, end |-> 3000, ok |-> TRUE]

\* the raw segments parseWhisperJSON reads
RawSegsOf(doc) == IF doc.segments # <<>> THEN doc.segments ELSE doc.transcription

\* the trimmed texts of the raw segments that have times and a non-blank text
RECURSIVE SpokenTexts(_)
SpokenTexts(raw) ==
    IF raw = <<>> THEN <<>>
    ELSE (IF \E i \in 1..4 : Strategies(Head(raw))[i] # None
             /\ TrimSpace(Head(raw).text) # <<>>
          THEN <<TrimSpace(Head(raw).text)>> ELSE <<>>) \o SpokenTexts(Tail(raw))

\* C20: a raw segment with a blank text is dropped: the normalized segments
\* are exactly the timed raw segments with a non-blank text, the text derived
\* from the segments is the join of their texts alone, and every normalized
\* segment and every segment row has a non-blank text.
C20_BlankSegmentsDropped ==
    probe.fn = "parseWhisperJSON" =>
        /\ \A k \in DOMAIN probe.out.segs : TrimSpace(probe.out.segs[k].Text) # <<>>
        /\ \A k \in DOMAIN probe.rows : TrimSpace(probe.rows[k].text) # <<>>
        /\ [k \in DOMAIN probe.out.segs |-> probe.out.segs[k].Text]
              = SpokenTexts(RawSegsOf(probe.doc))
        /\ [k \in DOMAIN probe.rows |-> probe.rows[k].text]
              = SpokenTexts(RawSegsOf(probe.doc))
        /\ TrimSpace(probe.doc.text) = <<>>
              => probe.out.text = Join(SpokenTexts(RawSegsOf(probe.doc)))

C20_Witness ==
    /\ probe.fn = "parseWhisperJSON"
    /\ probe.doc.text = <<>>
    /\ Len(probe.doc.transcription) = 2
    /\ TrimSpace(probe.doc.transcription[1].text) = <<>>
    /\ segTimesSeconds(probe.doc.transcription[1]).ok
    /\ probe.out.text = <<"b">>
    /\ Len(probe.out.segs) = 1 /\ Len(probe.rows) = 1

\* a sort by start that keeps the order of segments with equal starts
RECURSIVE InsertByStart(_, _)
InsertByStart(sorted, x) ==
    IF sorted = <<>> THEN <<x>>
    ELSE IF Head(sorted).Start <= x.Start
    THEN <<Head(sorted)>> \o InsertByStart(Tail(sorted), x)
    ELSE <<x>> \o sorted

RECURSIVE SortByStart(_)
SortByStart(segs) ==
    IF segs = <<>> THEN <<>>
    ELSE InsertByStart(SortByStart(SubSeq(segs, 1, Len(segs) - 1)), segs[Len(segs)])

\* C17 as stated: for all per-chunk segment lists, merging the chunks in
\* index order gives the sequence that merging them in any order and then
\* sorting by start gives.
C17_MergeOrderIndependent ==
    probe.fn = "merge" => probe.inOrder = SortByStart(probe.anyOrder)

\* every chunk's list is in strictly increasing start order and every start
\* lies inside the chunk
InOrderInsideChunk(lists) ==
    \A i \in DOMAIN lists :
        /\ \A k \in DOMAIN lists[i] :
              lists[i][k].Start >= 0 /\ lists[i][k].Start < ChunkSeconds * 1000
        /\ \A k \in 1..(Len(lists[i]) - 1) : lists[i][k].Start < lists[i][k + 1].Start

\* C17 amended: for per-chunk segment lists that are each in strictly
\* increasing start order with every start inside the chunk, merging the
\* chunks in index order gives the sequence that merging them in any order
\* and then sorting by start gives.
C17_MergeOrderIndependentInOrderChunks ==
    probe.fn = "merge" /\ InOrderInsideChunk(probe.lists)
        => probe.inOrder = SortByStart(probe.anyOrder)

C17_Witness ==
    /\ probe.fn = "merge"
    /\ InOrderInsideChunk(probe.lists)
    /\ probe.order = <<2, 1>>
    /\ Len(probe.lists[1]) = 2 /\ Len(probe.lists[2]) = 2
    /\ probe.inOrder # probe.anyOrder
    /\ probe.inOrder = SortByStart(probe.anyOrder)

ToolOrParseErrors == {"whisper failed", "read whisper json", "parse whisper json"}

\* C21: a chunk is never failed for records without times or for having no
\* usable segment: a job fails in transcription only with the error of an
\* engine run that exited non-zero, left no file or left no valid JSON, and
\* every file the loop accepted left the worker going on.
C21_SkippedRecordsNeverFail ==
    \A j \in Created :
        /\ hist[j].failStage = "transcribe" => hist[j].failMsg \in ToolOrParseErrors
        /\ Len(hist[j].files) = Len(hist[j].raws)
        /\ \A w \in Holders(j) :
              pc[w] = "transcribing" => Len(hist[j].files) = loc[w].current - 1

C21_Witness ==
    \E j \in Created :
        /\ Status(j) = "completed"
        /\ Len(hist[j].raws) = 2
        /\ Len(hist[j].raws[1].transcription) = 2
        /\ ~segTimesSeconds(hist[j].raws[1].transcription[2]).ok
        /\ parseWhisperJSON(hist[j].raws[1]).segs = <<>>
        /\ Len(SegmentRowsOf(j)) = 1

\* C22: a job whose engine run failed, or left output that is no valid JSON,
\* is failed, and the status read returns the error string of that run.
C22_EngineErrorFailsJob ==
    \A j \in Created :
        hist[j].returned /\ hist[j].failStage = "transcribe"
            => /\ hist[j].failMsg \in ToolOrParseErrors
               /\ GetJobByID(j).Status = "failed"
               /\ GetJobByID(j).Error = hist[j].failMsg

\* C23: a job one of whose chunks gave a JSON object with none of the known
\* keys does not complete (a parse error fails it).
C23_UnknownShapeFailsJob ==
    \A j \in Created :
        (\E i \in DOMAIN hist[j].files : DOMAIN hist[j].files[i] \cap DOMAIN NoDoc = {})
            => Status(j) # "completed"

\* the milliseconds a fraction of digits stands for: its first three digits,
\* with zeros for the ones that are missing
FractionMs(frac) ==
    LET d(i) == IF i <= Len(frac) THEN DigitVal(frac[i]) ELSE 0
    IN 100 * d(1) + 10 * d(2) + d(3)

\* C24: HH:MM:SS[.fff] parses to H*3600 + M*60 + S seconds plus the fraction
\* cut or padded to 3 digits; a malformed string is not recognised; strategy 4
\* gives times only when both strings parse, and never an error.
C24_TimestampValue ==
    probe.fn = "parseTimestamp" =>
        /\ IF probe.ts.fields = None THEN ~probe.res.ok
           ELSE LET f == probe.ts.fields[1] IN
                /\ probe.res.ok
                /\ probe.res.v = (f.h * 3600 + f.m * 60 + f.s) * 1000 + FractionMs(f.frac)
        /\ probe.times.ok = (probe.ts.fields # None)
        /\ probe.times.ok => probe.times.start = 5500 /\ probe.times.end = probe.res.v

\* the file a chunk was cut to
FileOf(c) == probe.files[CHOOSE k \in 1..Len(probe.files) : probe.files[k].name = c.Path]

\* C25: audio of L seconds gives ceil(L/D) chunks with Index 1, 2, ... and
\* Offset (i-1)*D for the i-th, which holds the audio from its Offset on, and
\* only the last chunk is shorter than D.
C25_ChunkCountAndOffsets ==
    probe.fn = "chunkAudio" =>
        LET L == probe.in.L
            D == probe.in.D
            N == Len(probe.chunks)
        IN /\ N * D >= L /\ (N - 1) * D < L
           /\ \A i \in 1..N :
                /\ probe.chunks[i].Index = i
                /\ probe.chunks[i].Offset = (i - 1) * D * 1000
                /\ FileOf(probe.chunks[i]).from * 1000 = probe.chunks[i].Offset
                /\ i < N => FileOf(probe.chunks[i]).secs = D

\* C26: the file ffmpeg wrote as its n-th segment (from 0) is the chunk with
\* Index n+1 and Offset n * ChunkSeconds, for every number of chunks.
C26_SortedNamesFollowNumbers ==
    probe.fn = "chunkAudio" =>
        \A i \in 1..Len(probe.chunks) :
            /\ probe.chunks[i].Path = ChunkName(i - 1)
            /\ probe.chunks[i].Index = probe.files[i].n + 1
            /\ probe.chunks[i].Offset = probe.files[i].n * probe.in.D * 1000

\* C31: a poll changes no row of the three tables, and while no write to the
\* job has succeeded since a poll, the same poll returns the same reply.
C31_PollsReadOnly ==
    /\ [](probe.fn \in {"GetJobByID", "GetLatestJobForConversation"}
            /\ Len(log[probe.id]) = probe.writes
          => /\ probe.fn = "GetJobByID" => GetJobByID(probe.id) = probe.reply
             /\ probe.fn = "GetLatestJobForConversation"
                   => GetLatestJobForConversation(probe.id) = probe.reply)
    /\ [][probe' # probe => Tables' = Tables]_vars

C31_Witness ==
    /\ probe.fn = "GetJobByID"
    /\ probe.reply.Status = "processing" /\ probe.reply.CurrentChunk = 1
    /\ Status(probe.id) = "processing"
    /\ Len(log[probe.id]) = probe.writes
    /\ \E w \in Workers : job[w] = probe.id /\ pc[w] = "transcribing" /\ expired[w]

\* the language a chunk reports: its top-level language or, when that is
\* blank, the one of its result; <<>> when it reports none
ChunkLanguage(raw) ==
    IF TrimSpace(raw.language) # <<>> THEN TrimSpace(raw.language)
    ELSE IF raw.result # None THEN TrimSpace(raw.result[1].language) ELSE <<>>

FirstLanguage(raws) ==
    LET with == {i \in DOMAIN raws : ChunkLanguage(raws[i]) # <<>>}
    IN IF with = {} THEN None
       ELSE Some(ChunkLanguage(raws[CHOOSE i \in with : \A k \in with : i <= k]))

\* C33: the language of a completed job's transcript is the language of the
\* first chunk, in chunk order, that reports one, and null when none does.
C33_FirstChunkLanguage ==
    \A j \in Created :
        Status(j) = "completed" => TranscriptOf(j).language = FirstLanguage(hist[j].raws)

C33_Witness ==
    \E j, k \in Created :
        /\ Status(j) = "completed" /\ Status(k) = "completed"
        /\ Len(hist[j].raws) = 2 /\ Len(hist[k].raws) = 2
        /\ TranscriptOf(j).language = Some(<<"d", "e">>)
        /\ ChunkLanguage(hist[j].raws[1]) = <<>>
        /\ ChunkLanguage(hist[j].raws[2]) = <<"d", "e">>
        /\ TranscriptOf(k).language = Some(<<"e", "n">>)
        /\ ChunkLanguage(hist[k].raws[2]) = <<"d", "e">>

\* how often a segment occurs in a list
Occurrences(list, x) == Cardinality({i \in DOMAIN list : list[i] = x})
AsRead(seg) == [StartTime |-> seg.Start, EndTime |-> seg.End, Text |-> seg.Text]
Unnumbered(r) == [StartTime |-> r.StartTime, EndTime |-> r.EndTime, Text |-> r.Text]

\* C34: the segments read back are in ascending start order and are the merged
\* segments, each as often as it was merged: equal segments are not made one.
C34_ListedAscendingWithDuplicates ==
    probe.fn = "listed" =>
        /\ Len(probe.out) = Len(InputSegments(probe.combined))
        /\ \A a \in 1..(Len(probe.out) - 1) :
              probe.out[a].StartTime <= probe.out[a + 1].StartTime
        /\ \A x \in ListSegs :
              Occurrences([i \in DOMAIN probe.out |-> Unnumbered(probe.out[i])], AsRead(x))
                = Occurrences(probe.combined, x)

C34_Witness ==
    /\ probe.fn = "listed"
    /\ Len(probe.combined) = 3
    /\ probe.combined[1].Start = 5000
    /\ probe.combined[2] = probe.combined[3]
    /\ Len(probe.out) = 3
    /\ probe.out[1].ID = 4 /\ probe.out[2].ID = 3 /\ probe.out[3].ID = 2

\* C36: a job that process has returned from and whose conversation has a
\* committed transcript is completed with transcript_id naming that transcript.
C36_TranscriptMeansCompleted ==
    \A j \in Created :
        hist[j].returned /\ TranscriptsOf(j) # {}
            => /\ Status(j) = "completed"
               /\ processing_jobs[j].transcript_id \in TranscriptsOf(j)

\* the chunk columns of a row are as C37 says
ChunkColumnsOK(j) ==
    LET row == processing_jobs[j] IN
    /\ hist[j].n = -1 => row.total_chunks = NullInt /\ row.current_chunk = NullInt
    /\ row.total_chunks # NullInt
          => row.current_chunk # NullInt /\ 0 <= row.current_chunk
                /\ row.current_chunk <= row.total_chunks
    /\ row.status = "completed"
          => row.total_chunks # NullInt /\ row.current_chunk = row.total_chunks

\* C37: total_chunks and current_chunk are null until segmentation is done;
\* total_chunks, once set, never changes and bounds current_chunk, which never
\* decreases and equals total_chunks in a completed job.
C37_ChunkColumns ==
    /\ [](\A j \in Created : ChunkColumnsOK(j))
    /\ [][\A j \in Created :
            /\ processing_jobs[j].total_chunks # NullInt
                  => processing_jobs'[j].total_chunks = processing_jobs[j].total_chunks
            /\ processing_jobs[j].current_chunk # NullInt
                  => processing_jobs'[j].current_chunk >= processing_jobs[j].current_chunk]_vars

\* C40: the update sets status and progress of the row with the given id,
\* keeps each optional column whose argument is nil, never makes a set
\* optional column null, and leaves every other row as it was.
C40_UpdateFrame ==
    probe.fn = "UpdateJobProgress" =>
        LET a == probe.args IN
        /\ DOMAIN probe.out = DOMAIN probe.tbl
        /\ \A j \in DOMAIN probe.tbl :
              LET old == probe.tbl[j]
                  new == probe.out[j]
              IN IF j # a.jobID THEN new = old
                 ELSE /\ new.status = a.status /\ new.progress = a.progress
                      /\ new.conversation_id = old.conversation_id
                      /\ a.totalChunks = NullInt => new.total_chunks = old.total_chunks
                      /\ a.currentChunk = NullInt => new.current_chunk = old.current_chunk
                      /\ a.result = NullStr => new.result = old.result
                      /\ a.transcriptID = NullInt => new.transcript_id = old.transcript_id
                      /\ old.total_chunks # NullInt => new.total_chunks # NullInt
                      /\ old.current_chunk # NullInt => new.current_chunk # NullInt
                      /\ old.result # NullStr => new.result # NullStr
                      /\ old.transcript_id # NullInt => new.transcript_id # NullInt
                      /\ a.totalChunks # NullInt => new.total_chunks = a.totalChunks
                      /\ a.result # NullStr => new.result = a.result

C40_Witness ==
    /\ probe.fn = "UpdateJobProgress"
    /\ probe.args.jobID = 1 /\ probe.args.status = "failed"
    /\ probe.args.totalChunks = NullInt /\ probe.args.currentChunk = 2
    /\ probe.args.transcriptID = NullInt
    /\ probe.tbl[1].total_chunks = 2 /\ probe.tbl[1].transcript_id = 7
    /\ probe.out[1].total_chunks = 2 /\ probe.out[1].current_chunk = 2
    /\ probe.out[1].transcript_id = 7 /\ probe.out[1].status = "failed"
    /\ probe.out[2] = probe.tbl[2]

\* the engine runs that left the files a job's worker read
RunsOf(j) ==
    [i \in DOMAIN hist[j].files |->
        [exit |-> 0, file |-> Some([valid |-> TRUE, json |-> hist[j].files[i]])]]

AsSegmentRows(j, segs) ==
    [k \in DOMAIN segs |-> SegmentRow(processing_jobs[j].transcript_id, segs[k])]

\* C35: for the chunks and engine outputs a job met, the job is completed
\* exactly when Run returns no error, and the transcript then holds the text,
\* language, segments and duration of Run's Result.
C35_RunAndProcessAgree ==
    \A j \in Created :
        /\ Status(j) = "completed"
              => /\ Run(RunsOf(j)).err = NullStr
                 /\ TranscriptOf(j).transcript_text = Run(RunsOf(j)).result.Text
                 /\ TranscriptOf(j).language = Run(RunsOf(j)).result.Language
                 /\ TranscriptOf(j).duration = Run(RunsOf(j)).result.Duration
                 /\ SegmentRowsOf(j) = AsSegmentRows(j, Run(RunsOf(j)).result.Segments)
        /\ hist[j].returned /\ hist[j].n = Len(hist[j].files) /\ Run(RunsOf(j)).err = NullStr
              => Status(j) = "completed"

\* C32: pollJobStatus sends at most maxAttempts status requests, sends one
\* only when none is in flight and no completed or failed job was seen, waits
\* 1 s after a reply that is not terminal and 2 s after an error, and ends.
C32_PollingBounded ==
    /\ [](/\ probe.requests <= maxAttempts
          /\ probe.seen \in {"completed", "failed"} => probe.phase = "done"
          /\ probe.phase = "timer" /\ probe.seen # "none"
                => probe.delay = IF probe.seen = "error" THEN 2000 ELSE 1000)
    /\ [][probe'.requests > probe.requests
            => /\ probe.phase = "timer"
               /\ probe'.requests = probe.requests + 1
               /\ probe.seen \notin {"completed", "failed"}]_vars
    /\ <>(probe.phase = "done")

C32_Witness ==
    /\ probe.phase = "done"
    /\ probe.requests = maxAttempts
    /\ probe.attempts = maxAttempts
    /\ probe.seen = "processing"

\* C38: once every request of the page has settled, current is the upload the
\* user selected last, or null if that upload was deleted, and segments are
\* the segments of that upload.
C38_LastSelectionWins ==
    probe.fn = "page" /\ probe.calls = <<>> /\ probe.deleting = {} /\ probe.selected # 0
        => /\ probe.current = IF probe.selected \in probe.deleted THEN 0 ELSE probe.selected
           /\ probe.segments = probe.current

\* C39: no migration is applied twice; the changes in the database are those
\* of the recorded migrations and of no other; within one start migrations
\* are applied in ascending order of their names, and after one that failed no
\* other is tried in that start; only migration files are applied.
C39_MigrationsOnceInOrder ==
    probe.fn = "migrate" =>
        /\ \A a, b \in DOMAIN probe.applied :
              probe.applied[a].version = probe.applied[b].version => a = b
        /\ probe.changes = probe.recorded
        /\ probe.recorded = {probe.applied[a].version : a \in DOMAIN probe.applied}
        /\ \A a, b \in DOMAIN probe.applied :
              a < b /\ probe.applied[a].start = probe.applied[b].start
                  => Less(probe.applied[a].version, probe.applied[b].version)
        /\ \A a \in DOMAIN probe.tried :
              \/ \E b \in DOMAIN probe.applied : probe.applied[b] = probe.tried[a]
              \/ /\ a = Len(probe.tried)
                 \/ probe.tried[a + 1].start > probe.tried[a].start
        /\ \A a \in DOMAIN probe.applied :
              \E e \in probe.dir : e.name = probe.applied[a].version /\ ~e.isDir
                                     /\ e.name # <<"a", ".", "w", "a", "v">>

C39_Witness ==
    /\ probe.fn = "migrate"
    /\ probe.pc = "stopped"
    /\ probe.starts = 3
    /\ probe.dir = DirEntries
    /\ Len(probe.applied) = 3
    /\ probe.applied[1] = [start |-> 1, version |-> <<"9", ".", "s", "q", "l">>]
    /\ probe.applied[2].start = 3 /\ probe.applied[3].start = 3
    /\ probe.applied[2].version = <<"1", "0", ".", "S", "Q", "L">>
    /\ Len(probe.tried) = 4
    /\ probe.tried[2] = [start |-> 2, version |-> <<"1", "0", ".", "S", "Q", "L">>]

\* C27: a worker that is not inside process has no work directory and no
\* file of one, whatever way process was left.
C27_WorkDirReleased ==
    \A w \in Workers : pc[w] \in {"idle", "start"} => workDir[w] = NoDir

C27_Witness ==
    \E j, k \in Created :
        /\ hist[j].returned /\ hist[j].timedOutAt = "transcribing"
        /\ hist[k].returned /\ Status(k) = "completed" /\ hist[k].n = 2
        /\ \A w \in Workers : pc[w] = "idle" /\ workDir[w] = NoDir

\* C28: while the engine runs for a job it runs for chunk i with chunks
\* 1..i-1 started once each, in order, and all returned successfully, and no
\* other worker holds the job.
C28_ChunksSequential ==
    \A w \in Workers :
        pc[w] = "transcribing"
            => /\ hist[job[w]].starts = [i \in 1..loc[w].current |-> i]
               /\ Len(hist[job[w]].raws) = loc[w].current - 1
               /\ Holders(job[w]) = {w}

C28_Witness ==
    \E w \in Workers :
        /\ pc[w] = "transcribing" /\ loc[w].current = 2
        /\ hist[job[w]].starts = <<1, 2>>
        /\ workDir[w].files = {<<"wav", 1>>, <<"wav", 2>>, <<"json", 1>>}

\* C29: the engine is started at most once per chunk and for no chunk after
\* one that failed, and a job whose row is failed or completed, or whose
\* process has returned, is in no worker's hands and not in the channel, having
\* been received once.
C29_NoRetries ==
    \A j \in Created :
        /\ \A a, b \in DOMAIN hist[j].starts :
              hist[j].starts[a] = hist[j].starts[b] => a = b
        /\ hist[j].failStage = "transcribe"
              => \A a \in DOMAIN hist[j].starts : hist[j].starts[a] <= hist[j].failChunk
        /\ Status(j) \in Terminal \/ hist[j].returned
              => Holders(j) = {} /\ InChannel(j) = 0 /\ hist[j].claims = 1

C29_Witness ==
    \E j \in Created :
        /\ Status(j) = "failed" /\ hist[j].failStage = "transcribe"
        /\ hist[j].failChunk = 1 /\ hist[j].n = 2
        /\ hist[j].starts = <<1>>
        /\ \A w \in Workers : pc[w] = "idle"
        /\ ch = <<>> /\ accepted = {}

\* C30: a row always holds the status and progress of the latest update that
\* was written, with the result and transcript id that go with that status:
\* no update shows in part, also after a worker was cut off by its deadline.
C30_RowIsLastWholeUpdate ==
    \A j \in Created :
        LET row == processing_jobs[j] IN
        /\ <<row.status, row.progress>> = log[j][Len(log[j])]
        /\ row.status = "completed"
              => row.progress = 100 /\ row.result = "success" /\ row.transcript_id # NullInt
        /\ row.status = "failed"
              => /\ row.progress = FailedProgress
                 /\ row.result \notin {NullStr, "success"}
                 /\ row.transcript_id = NullInt
        /\ row.status \in {"pending", "processing"}
              => row.result = NullStr /\ row.transcript_id = NullInt

C30_Witness ==
    \E j \in Created :
        /\ hist[j].returned /\ hist[j].timedOutAt = "transcribing"
        /\ Status(j) = "processing"
        /\ log[j] = <<<<"pending", 5>>, <<"processing", 10>>, <<"processing", 15>>,
                      <<"processing", 80>>>>
        /\ processing_jobs[j].current_chunk = 1 /\ processing_jobs[j].total_chunks = 1

====
